---- MODULE Spec2Model ----
(***************************************************************************)
(* Event-bus client and consumer tracking of lms-service-node.             *)
(*                                                                         *)
(* Consumer side: BaseConsumer (connect / subscribe / disconnect and the   *)
(* per-message dispatch call handleMessage), ConsumerTrackingService and   *)
(* KafkaTrackingRepository (the tracking store rows).  Every await of      *)
(* handleMessage is one step of the model, so the tracking store can be    *)
(* observed between the steps of a dispatch call.                          *)
(*                                                                         *)
(* Producer side: EventPublisher, ProducerFactory and BaseProducer.  A     *)
(* publishBatch call is modelled branch by branch: every connect and send  *)
(* it starts finishes in a step of its own.                                *)
(*                                                                         *)
(* Pool side: ConsumerManager and ConsumerFactory over the consumers of    *)
(* two groups, and the pause / resume requests of the HTTP controller.     *)
(***************************************************************************)
EXTENDS Integers, Sequences, FiniteSets, TLC

\* ------------------------------------------------------------------ bounds
MaxDeliveries == 2      \* records the broker hands to eachMessage in a run
MaxOffset == 1          \* offsets of fresh records are 0..MaxOffset
MaxEmitted == 1         \* records accepted by the broker from producers
MaxBatchEmitted == 2    \* records the broker accepts from publishBatch calls
MaxManaged == 3         \* entries in ConsumerManager's consumer list
MaxRetryCount == 4      \* retry counts a trackConsumerError caller passes
MaxTracked == 1         \* error rows written by direct trackConsumerError calls
MaxLagRows == 2         \* partitions of a group with a row in the lag view
MaxClock == 2           \* seconds the store's clock advances
MaxMessages == 11       \* rows in kafka_message_processing the dashboard reads
MaxOverviewGroups == 1   \* rows of v_consumer_group_overview the dashboard reads
MaxStamped == 2         \* rows of kafka_message_processing with their timestamps

\* ------------------------------------------------------- values and inputs
NoVal == "undefined"                      \* JavaScript undefined / SQL NULL
NoId == 0                                 \* undefined / NULL where a row id goes
NoCount == -1                             \* undefined where a count goes

\* the partitions the runner fetches from
Partitions == {0, 1, 2}

\* the topic partitions the broker has assigned to this consumer
Assigned == { <<"lms.customer.created", 0>>, <<"lms.customer.updated", 1>> }
GroupRowId == 7                           \* AUTO_INCREMENT id of the group row

\* message.value as the broker delivers it
\*   null       : no value (tombstone)        empty    : zero bytes
\*   malformed  : text JSON.parse rejects     jsonNull : the text "null"
\*   envelope   : a JSON object carrying eventType
ValueKinds == {"null", "empty", "malformed", "jsonNull", "envelope"}
EventTypes == {"CustomerCreated", "NoSuchType"}
Values ==
    {[kind |-> k, eventType |-> NoVal] : k \in ValueKinds \ {"envelope"}}
      \cup {[kind |-> "envelope", eventType |-> et] : et \in EventTypes}

\* errors: the name and the markers String.includes() finds in the message
Markers == {"FATAL", "Cannot connect", "data corruption"}
NoErr == [name |-> "none", markers |-> {}]
SyntaxErr == [name |-> "SyntaxError", markers |-> {}]
TypeErr == [name |-> "TypeError", markers |-> {}]
HandlerErrors ==
    { [name |-> "Error", markers |-> {}],
      [name |-> "Error", markers |-> {"FATAL"}],
      [name |-> "Error", markers |-> {"data corruption"}] }

\* the static topic catalog the publisher creates producers for
CatalogTopics == {"lms.loan.application.created", "lms.customer.created"}
\* events as the business layer builds them: with and without correlationId
PublishEvents ==
    { [eventId |-> "abc-1", eventType |-> "LoanApplicationCreated",
       correlationId |-> NoVal],
      [eventId |-> "abc-2", eventType |-> "LoanApplicationCreated",
       correlationId |-> "corr-1"] }
\* the optional key argument of publish: absent, empty, or a customer id
Keys == {NoVal, "", "CUST-1"}

NoMsg == [topic |-> NoVal, partition |-> 0, offset |-> <<>>,
          value |-> [kind |-> "null", eventType |-> NoVal]]

VARIABLES
    \* BaseConsumer fields; paused is the broker client's pause flag for the
    \* consumer's topics
    connected, running, consumerGroupId, paused,
    \* the last lifecycle call on the consumer, as its caller saw it
    lastOp,
    \* tracking store tables
    groupStatus, mp, errs,
    \* one dispatch call (handleMessage) in flight
    pc, msg, processingId, caught, handlerCalls, handlerResult,
    outcome, raised,
    \* bookkeeping of the dispatch call: tracking writes it issued, those the
    \* store rejected, and ids of rows whose update never reached the store
    attempted, rejected, lostUpdate,
    \* broker side of the consumer
    deliveries, nextOffset, pending, attempts,
    \* EventPublisher / ProducerFactory / BaseProducer
    initialized, producers, emitted, lastPublish,
    \* the publishBatch call in flight (or the last one), and the last
    \* initialize / shutdown call as its caller saw it
    batch, lastAdmin,
    \* ConsumerManager (initialized flag and consumer list), the consumers of
    \* ConsumerFactory by key, and the last manager call as its caller saw it
    mgrInitialized, mgrConsumers, pool, lastMgr,
    \* the status column of the pool's group rows in kafka_consumer_groups,
    \* and the last pause / resume request as the HTTP client saw it
    groupRows, lastReq,
    \* the last trackConsumerError and the last getConsumerHealthReport call,
    \* as their callers saw them
    sev, health,
    \* the store's clock (CURRENT_TIMESTAMP), the last acknowledge request as
    \* the HTTP client saw it, and the last unacknowledged-errors list
    now, lastAck, lastList,
    \* kafka_message_processing by the two columns getDashboard's slow-message
    \* query reads, and getDashboard's answer when it was the last step
    mpTimes, dash,
    \* the consumer process's clock (new Date()), and kafka_message_processing
    \* by its status and timestamp columns
    processNow, mpStamps,
    \* the broker client's runner of one consumer: the eachMessage calls whose
    \* handleMessage is running, and per partition the next offset to hand
    \* over and the offset handed over last
    handling, position, lastDispatched,
    \* what registerConsumerGroup did in the consumer's current connect(), and
    \* whether the consumer already held a tracking id when that call began
    registration

consumerVars == <<connected, running, consumerGroupId, groupStatus, paused,
                  lastOp>>
storeVars == <<mp, errs>>
dispatchVars == <<pc, msg, processingId, caught, handlerCalls, handlerResult,
                  outcome, raised, attempted, rejected, lostUpdate>>
brokerVars == <<deliveries, nextOffset, pending, attempts>>
publisherVars == <<initialized, producers, emitted, lastPublish, batch,
                   lastAdmin>>
managerVars == <<mgrInitialized, mgrConsumers, pool, lastMgr, groupRows,
                 lastReq>>
ackVars == <<now, lastAck, lastList>>
dashVars == <<mpTimes, dash>>
stampVars == <<processNow, mpStamps>>
runnerVars == <<handling, position, lastDispatched>>
regVars == <<registration>>
monitorVars == <<sev, health, ackVars, dashVars, stampVars, runnerVars,
                 regVars>>
vars == <<consumerVars, storeVars, dispatchVars, brokerVars, publisherVars,
          managerVars, monitorVars>>

\* registration of a consumer that is not connected
NoRegistration == [outcome |-> "none", hadId |-> FALSE]

\* lastPublish before any publish call
NoPublish ==
    [ called |-> FALSE, topic |-> NoVal,
      event |-> [eventId |-> NoVal, eventType |-> NoVal,
                 correlationId |-> NoVal],
      key |-> NoVal, wasConnected |-> FALSE, connectTried |-> FALSE,
      connectOK |-> FALSE, sendTried |-> FALSE, brokerOK |-> FALSE,
      emittedBefore |-> 0, result |-> "none" ]

\* lastOp before any lifecycle call.  statusBefore is the group row's status
\* when the call began, reg what the store did with a registration, and
\* brokerCalls / storeWrites the broker-client calls and tracking-store
\* statements the call issued.
NoOp == [ op |-> "none", wasConnected |-> FALSE, statusBefore |-> "absent",
          reg |-> "none", brokerCalls |-> {}, storeWrites |-> {},
          result |-> "none" ]

\* batch before any publishBatch call
NoBatch ==
    [ state |-> "none", entries |-> <<>>,
      branch |-> [t \in {} |-> "done"],
      sends |-> <<>>, emittedBefore |-> 0, emittedAtReturn |-> 0 ]

\* lastAdmin before any initialize / shutdown call.  connectedBefore is the
\* set of topics whose producer was connected when the call began, issued
\* the set of topics whose producer the call asked the broker to connect or
\* disconnect; prevOp, prevOK and prevIssued describe the call before it.
NoAdmin == [ op |-> "none", prevOp |-> "none", prevOK |-> FALSE,
             prevIssued |-> {}, wasInitialized |-> FALSE,
             connectedBefore |-> {}, issued |-> {}, ok |-> FALSE ]

\* the consumer groups ConsumerManager.initialize creates, in its order
GroupOrder == << "lms-loan-processor-group",
                "lms-disbursement-processor-group" >>
Groups == { GroupOrder[i] : i \in 1..Len(GroupOrder) }

\* a consumer as ConsumerFactory.createConsumer builds it
NewConsumer == [connected |-> FALSE, running |-> FALSE, paused |-> FALSE]

\* lastMgr before any manager call.  connects / subscribes / disconnects are
\* the consumers the call asked the broker to connect, subscribe, disconnect,
\* accepted / begun the consumers whose connect / subscribe succeeded in the
\* call, left the consumers still connected when a stopAll returned; prevOp
\* and prevWasInitialized describe the call before it.
NoMgr == [ op |-> "none", prevOp |-> "none", prevWasInitialized |-> FALSE,
           wasInitialized |-> FALSE,
           connects |-> {}, subscribes |-> {}, disconnects |-> {},
           accepted |-> {}, begun |-> {}, left |-> {},
           result |-> "none" ]

\* group ids a pause / resume request can name: the pool's groups and one
\* that no consumer ever registered
UnregisteredGroup == "no-such-group"
RequestGroups == Groups \cup {UnregisteredGroup}

\* lastReq before any pause / resume request.  http is the response status.
NoReq == [ op |-> "none", groupId |-> NoVal, http |-> 0 ]

\* sev before any trackConsumerError call: the error's type name and the
\* markers its message contains, the retry count of the context, and the
\* severity and error type the row was given; stored tells whether the store
\* accepted the row
NoSev == [ name |-> NoVal, markers |-> {}, retryCount |-> NoCount,
           severity |-> NoVal, errorType |-> NoVal, stored |-> FALSE ]

\* lastAck before any acknowledge request.  wasAcknowledged, prevBy and
\* prevAt are the row's acknowledged, acknowledged_by and acknowledged_at
\* when the request arrived (no row: FALSE, NoVal, NoCount); http is the
\* response status.
NoAck == [ errorId |-> NoId, acknowledgedBy |-> NoVal,
           resolutionNotes |-> NoVal, wasAcknowledged |-> FALSE,
           prevBy |-> NoVal, prevAt |-> NoCount, http |-> 0 ]

\* lastList before any listing of unacknowledged errors: the ids returned
\* and the store's time when they were read
NoList == [listed |-> FALSE, ids |-> {}, at |-> 0]

\* processing_duration_ms of a row whose processing ended, in milliseconds;
\* NoCount (NULL) while the row is still PROCESSING
DurationValues == {10, 500}
Durations == {NoCount} \cup DurationValues

\* how long ago a row's processing_started_at is: 0 within the last half
\* hour, 1 between half an hour and an hour, 2 more than an hour
SinceStart == 0..2

\* a row of kafka_message_processing as getDashboard's query sees it:
\* <<how long ago it started, processing_duration_ms>>; mpTimes counts the
\* rows of each kind
MessageClasses == SinceStart \X Durations

\* the overview object of a dashboard that was not produced
NoOverview == [ totalConsumerGroups |-> NoCount,
                activeConsumerGroups |-> NoCount,
                totalActiveInstances |-> NoCount, totalLag |-> NoCount,
                messagesProcessedLastHour |-> NoCount,
                errorRateLastHourX100 |-> NoCount ]

\* dash when the last step was not a getDashboard call: result is
\* "dashboard" or "error"; overview is the answer's overview object (its
\* errorRateLastHour in hundredths), consumerGroups the answer's array,
\* recentErrors and lagByTopic the lengths of the answer's arrays,
\* topSlowMessages the processingDurationMs of the answer's
\* topSlowMessages, in the answer's order
NoDash == [ result |-> "none", overview |-> NoOverview,
            consumerGroups |-> <<>>, recentErrors |-> NoCount,
            topSlowMessages |-> <<>>, lagByTopic |-> NoCount ]

\* metrics[0] when the group has no metrics row in the last hour
NoMetrics == [ present |-> FALSE, errorRate |-> 0, avgProcessingTimeMs |-> 0,
               messagesPerSecond |-> 0 ]

\* health before any getConsumerHealthReport call: what the store returned
\* (the group row's status, the total lag, the latest metrics row if any,
\* and whether the driver handed its DECIMAL columns over as numbers or as
\* strings), and the outcome: result is "report" or the error raised,
\* healthScore, status and reportMetrics (the metrics object) are the report's
NoHealth == [ groupStatus |-> NoVal, totalLag |-> 0, metrics |-> NoMetrics,
              decimals |-> NoVal, result |-> "none", healthScore |-> 0,
              status |-> NoVal, reportMetrics |-> NoVal ]

\* ---------------------------------------------------------- pure functions
RECURSIVE Digits(_)
\* the decimal text of an offset, as kafkajs reports message.offset
Digits(n) == IF n < 10 THEN <<n>> ELSE Append(Digits(n \div 10), n % 10)

RECURSIVE NumberOf(_)
\* Number(message.offset): the text read back as a number
NumberOf(s) ==
    IF s = <<>> THEN 0
    ELSE 10 * NumberOf(SubSeq(s, 1, Len(s) - 1)) + s[Len(s)]

\* message.value?.toString(): undefined for a null value, else the text
EventData(v) == IF v.kind = "null" THEN NoVal
                ELSE IF v.kind = "empty" THEN "" ELSE v.kind

\* JSON.parse(text).eventType: "throws" when the text is not JSON
\* (SyntaxError) or parses to null (TypeError on the property read)
ParseThrows(v) ==
    IF v.kind = "malformed" THEN SyntaxErr
    ELSE IF v.kind = "jsonNull" THEN TypeErr
    ELSE NoErr

\* the switch of the group's handler has a case for the declared type
HandlerKnows(et) == et = "CustomerCreated"

Includes(err, marker) == marker \in err.markers

\* context.retryCount || 0
RetryCountOrZero(rc) == IF rc = NoCount THEN 0 ELSE rc

\* error.name || 'Error'
ErrorTypeOf(name) == IF name \in {NoVal, ""} THEN "Error" ELSE name

determineSeverityRetriesFirst(err, retryCount) ==
    IF retryCount > 3 \/ Includes(err, "data corruption") THEN "HIGH"
    ELSE IF Includes(err, "FATAL") \/ Includes(err, "Cannot connect")
         THEN "CRITICAL"
    ELSE IF retryCount > 0 THEN "MEDIUM"
    ELSE "LOW"
determineSeverity(err, retryCount) ==
    IF Includes(err, "FATAL") \/ Includes(err, "Cannot connect") THEN "CRITICAL"
    ELSE IF retryCount > 3 \/ Includes(err, "data corruption") THEN "HIGH"
    ELSE IF retryCount > 0 THEN "MEDIUM"
    ELSE "LOW"

\* the retry count handleMessage passes to failMessageProcessing and
\* trackConsumerError
DispatchRetryCountAsAttempts == attempts
DispatchRetryCount == 0

\* status written by failMessageProcessing
FailStatus(retryCount) == IF retryCount > 0 THEN "RETRYING" ELSE "FAILED"

\* ------------------------------------------------------------- tracking rows
\* INSERT INTO kafka_message_processing ... 'PROCESSING'
NewProcessingRow(gid, m) ==
    [ id |-> Len(mp) + 1,
      consumerGroupId |-> gid,
      topic |-> m.topic,
      partition |-> m.partition,
      offset |-> NumberOf(m.offset),
      eventType |-> m.value.eventType,
      status |-> "PROCESSING",
      retryCount |-> 0,
      updates |-> 0,
      by |-> deliveries ]

\* UPDATE kafka_message_processing SET status = ?, retry_count =
\* COALESCE(?, retry_count) WHERE id = ?
UpdateProcessingNoop(rows, id, status, retryCount) == rows
UpdateProcessingAllRows(rows, id, status, retryCount) ==
    [i \in 1..Len(rows) |->
        [rows[i] EXCEPT !.status = status, !.updates = @ + 1]]
UpdateProcessing(rows, id, status, retryCount) ==
    [i \in 1..Len(rows) |->
        IF rows[i].id = id
        THEN [rows[i] EXCEPT !.status = status,
                             !.retryCount = IF retryCount = NoCount THEN @
                                            ELSE retryCount,
                             !.updates = @ + 1]
        ELSE rows[i]]

\* trackConsumerError + INSERT INTO kafka_consumer_errors
NewErrorRowUnlinked(gid, err, ctx) ==
    [ id |-> Len(errs) + 1,
      consumerGroupId |-> gid,
      messageProcessingId |-> NoId,
      errorType |-> ErrorTypeOf(err.name),
      markers |-> err.markers,
      severity |-> determineSeverity(err, RetryCountOrZero(ctx.retryCount)),
      topic |-> ctx.topic,
      partition |-> ctx.partition,
      offset |-> ctx.offset,
      eventType |-> ctx.eventType,
      retryCount |-> ctx.retryCount,
      acknowledged |-> FALSE,
      acknowledgedBy |-> NoVal,
      acknowledgedAt |-> NoCount,
      resolutionNotes |-> NoVal,
      by |-> deliveries ]
NewErrorRow(gid, err, ctx) ==
    [ id |-> Len(errs) + 1,
      consumerGroupId |-> gid,
      messageProcessingId |-> ctx.messageProcessingId,
      errorType |-> ErrorTypeOf(err.name),
      markers |-> err.markers,
      severity |-> determineSeverity(err, RetryCountOrZero(ctx.retryCount)),
      topic |-> ctx.topic,
      partition |-> ctx.partition,
      offset |-> ctx.offset,
      eventType |-> ctx.eventType,
      retryCount |-> ctx.retryCount,
      acknowledged |-> FALSE,
      acknowledgedBy |-> NoVal,
      acknowledgedAt |-> NoCount,
      resolutionNotes |-> NoVal,
      by |-> deliveries ]

\* ------------------------------------------------------------------- Init
Init ==
    /\ connected = FALSE
    /\ running = FALSE
    /\ consumerGroupId = 0
    /\ groupStatus = "absent"
    /\ mp = <<>>
    /\ errs = <<>>
    /\ pc = "idle"
    /\ msg = NoMsg
    /\ processingId = NoId
    /\ caught = NoErr
    /\ handlerCalls = 0
    /\ handlerResult = NoErr
    /\ outcome = "none"
    /\ raised = NoErr
    /\ attempted = {}
    /\ rejected = {}
    /\ lostUpdate = {}
    /\ deliveries = 0
    /\ nextOffset = 0
    /\ pending = NoMsg
    /\ attempts = 0
    /\ initialized = FALSE
    /\ producers = [t \in {} |-> "disconnected"]
    /\ emitted = <<>>
    /\ lastPublish = NoPublish
    /\ paused = FALSE
    /\ lastOp = NoOp
    /\ batch = NoBatch
    /\ lastAdmin = NoAdmin
    /\ mgrInitialized = FALSE
    /\ mgrConsumers = <<>>
    /\ pool = [k \in {} |-> NewConsumer]
    /\ lastMgr = NoMgr
    /\ groupRows = [g \in Groups |-> "absent"]
    /\ lastReq = NoReq
    /\ sev = NoSev
    /\ health = NoHealth
    /\ now = 0
    /\ lastAck = NoAck
    /\ lastList = NoList
    /\ mpTimes = [c \in MessageClasses |-> 0]
    /\ dash = NoDash
    /\ processNow = 0
    /\ mpStamps = <<>>
    /\ handling = {}
    /\ position = [p \in Partitions |-> 0]
    /\ lastDispatched = [p \in Partitions |-> NoCount]
    /\ registration = NoRegistration

\* ------------------------------------------------------ consumer lifecycle
\* BaseConsumer.connect with registerConsumerGroup.  reg is what the
\* tracking store does with the registration: "ok"; "upsertFail" (the upsert
\* is rejected); "readFail" (the row is upserted, reading it back fails);
\* "statusFail" (the row is upserted and read back, the ACTIVE update fails).
\* A new row gets the column default ACTIVE; the upsert leaves the status of
\* an existing row alone.
RegisteredIdAlways(reg, id) == GroupRowId
RegisteredId(reg, id) ==
    IF reg \in {"upsertFail", "readFail"} THEN id ELSE GroupRowId
RegisteredStatusKept(reg, status) == status
RegisteredStatus(reg, status) ==
    IF reg = "upsertFail" THEN status
    ELSE IF reg = "ok" THEN "ACTIVE"
    ELSE IF status = "absent" THEN "ACTIVE"
    ELSE status

ConnectStep(brokerOK, reg) ==
    /\ pc = "idle"
    /\ ~connected
    /\ IF ~brokerOK
       THEN UNCHANGED <<connected, consumerGroupId, groupStatus>>
       ELSE /\ connected' = TRUE
            /\ consumerGroupId' = RegisteredId(reg, consumerGroupId)
            /\ groupStatus' = RegisteredStatus(reg, groupStatus)
    /\ UNCHANGED <<running, paused, lastOp, storeVars, dispatchVars,
                   brokerVars, publisherVars, managerVars, sev, health,
                   ackVars, dashVars, stampVars, runnerVars>>
Connect(brokerOK, reg) ==
    /\ ConnectStep(brokerOK, reg)
    /\ UNCHANGED regVars

\* BaseConsumer.subscribe: consumer.subscribe per topic, then consumer.run
Subscribe(brokerOK) ==
    /\ connected
    /\ ~running
    /\ running' = brokerOK
    /\ UNCHANGED <<connected, consumerGroupId, groupStatus, paused, lastOp,
                   storeVars, dispatchVars, brokerVars, publisherVars,
                   managerVars, monitorVars>>

\* BaseConsumer.disconnect: kafkajs stops the runner once the in-flight
\* eachMessage call has ended, then closes the session
DisconnectStep(brokerOK) ==
    /\ connected
    /\ pc = "idle"
    /\ IF brokerOK
       THEN connected' = FALSE /\ running' = FALSE
       ELSE UNCHANGED <<connected, running>>
    /\ UNCHANGED <<consumerGroupId, groupStatus, paused, lastOp, storeVars,
                   dispatchVars, brokerVars, publisherVars, managerVars, sev,
                   health, ackVars, dashVars, stampVars, runnerVars>>
Disconnect(brokerOK) ==
    /\ DisconnectStep(brokerOK)
    /\ UNCHANGED regVars

\* ------------------------------------------- lifecycle calls, as called
\* the statements registerConsumerGroup sends to the tracking store
RegistrationWrites(reg) ==
    IF reg \in {"ok", "statusFail"} THEN {"upsert", "status"} ELSE {"upsert"}

\* connect returns at its guard when the consumer is connected
ConnectReturnsEarlyNever(isConn) == FALSE
ConnectReturnsEarly(isConn) == isConn

\* BaseConsumer.connect() as its caller sees it, on a consumer in any state
ConsumerConnect(brokerOK, reg) ==
    /\ pc = "idle"
    /\ IF ConnectReturnsEarly(connected)
       THEN /\ lastOp' = [ op |-> "connect", wasConnected |-> connected,
                           statusBefore |-> groupStatus, reg |-> "none",
                           brokerCalls |-> {}, storeWrites |-> {},
                           result |-> "ok" ]
            /\ UNCHANGED <<connected, consumerGroupId, groupStatus>>
       ELSE IF ~brokerOK
       THEN /\ lastOp' = [ op |-> "connect", wasConnected |-> connected,
                           statusBefore |-> groupStatus, reg |-> "none",
                           brokerCalls |-> {"connect"}, storeWrites |-> {},
                           result |-> "failed" ]
            /\ UNCHANGED <<connected, consumerGroupId, groupStatus>>
       ELSE /\ connected' = TRUE
            /\ consumerGroupId' = RegisteredId(reg, consumerGroupId)
            /\ groupStatus' = RegisteredStatus(reg, groupStatus)
            /\ lastOp' = [ op |-> "connect", wasConnected |-> connected,
                           statusBefore |-> groupStatus, reg |-> reg,
                           brokerCalls |-> {"connect"},
                           storeWrites |-> RegistrationWrites(reg),
                           result |-> "ok" ]
    /\ UNCHANGED <<running, paused, storeVars, dispatchVars, brokerVars,
                   publisherVars, managerVars, monitorVars>>

\* subscribe goes on past its guard only for a connected consumer
SubscribeAllowedAlways(isConn) == TRUE
SubscribeAllowed(isConn) == isConn

\* BaseConsumer.subscribe() as its caller sees it: it throws for a consumer
\* that is not connected; otherwise consumer.subscribe per topic and
\* consumer.run, which the broker client accepts (brokerOK) or not
ConsumerSubscribe(brokerOK) ==
    /\ pc = "idle"
    /\ IF ~SubscribeAllowed(connected)
       THEN /\ lastOp' = [ op |-> "subscribe", wasConnected |-> connected,
                           statusBefore |-> groupStatus, reg |-> "none",
                           brokerCalls |-> {}, storeWrites |-> {},
                           result |-> "rejected" ]
            /\ UNCHANGED running
       ELSE /\ running' = (running \/ brokerOK)
            /\ lastOp' = [ op |-> "subscribe", wasConnected |-> connected,
                           statusBefore |-> groupStatus, reg |-> "none",
                           brokerCalls |-> IF brokerOK THEN {"subscribe", "run"}
                                           ELSE {"subscribe"},
                           storeWrites |-> {},
                           result |-> IF brokerOK THEN "ok" ELSE "failed" ]
    /\ UNCHANGED <<connected, consumerGroupId, groupStatus, paused,
                   storeVars, dispatchVars, brokerVars, publisherVars,
                   managerVars, monitorVars>>

\* BaseConsumer.disconnect() as its caller sees it: a consumer that is not
\* connected warns and returns; otherwise consumer.disconnect(), which ends
\* the run loop and with it the pause flags.  Nothing is written to the
\* tracking store.
ConsumerDisconnect(brokerOK) ==
    /\ pc = "idle"
    /\ IF ~connected
       THEN /\ lastOp' = [ op |-> "disconnect", wasConnected |-> connected,
                           statusBefore |-> groupStatus, reg |-> "none",
                           brokerCalls |-> {}, storeWrites |-> {},
                           result |-> "ok" ]
            /\ UNCHANGED <<connected, running, paused>>
       ELSE /\ IF brokerOK
               THEN connected' = FALSE /\ running' = FALSE /\ paused' = FALSE
               ELSE UNCHANGED <<connected, running, paused>>
            /\ lastOp' = [ op |-> "disconnect", wasConnected |-> connected,
                           statusBefore |-> groupStatus, reg |-> "none",
                           brokerCalls |-> {"disconnect"}, storeWrites |-> {},
                           result |-> IF brokerOK THEN "ok" ELSE "failed" ]
    /\ UNCHANGED <<consumerGroupId, groupStatus, storeVars, dispatchVars,
                   brokerVars, publisherVars, managerVars, monitorVars>>

\* BaseConsumer.pause() / resume(), also reached through
\* ConsumerManager.pauseAll / resumeAll: consumer.pause / consumer.resume on
\* the consumer's topics, which the broker client rejects for a consumer
\* whose run loop has not been started.  Nothing is written to the tracking
\* store.
ConsumerPause ==
    /\ pc = "idle"
    /\ paused' = (paused \/ running)
    /\ lastOp' = [ op |-> "pause", wasConnected |-> connected,
                   statusBefore |-> groupStatus, reg |-> "none",
                   brokerCalls |-> {"pause"}, storeWrites |-> {},
                   result |-> IF running THEN "ok" ELSE "failed" ]
    /\ UNCHANGED <<connected, running, consumerGroupId, groupStatus,
                   storeVars, dispatchVars, brokerVars, publisherVars,
                   managerVars, monitorVars>>

ConsumerResume ==
    /\ pc = "idle"
    /\ paused' = (paused /\ ~running)
    /\ lastOp' = [ op |-> "resume", wasConnected |-> connected,
                   statusBefore |-> groupStatus, reg |-> "none",
                   brokerCalls |-> {"resume"}, storeWrites |-> {},
                   result |-> IF running THEN "ok" ELSE "failed" ]
    /\ UNCHANGED <<connected, running, consumerGroupId, groupStatus,
                   storeVars, dispatchVars, brokerVars, publisherVars,
                   managerVars, monitorVars>>

\* UPDATE kafka_consumer_groups SET status = ? WHERE group_id = ?
UpdateGroupStatus(status, new) == IF status = "absent" THEN status ELSE new

\* KafkaMonitoringController.pauseConsumerGroup / resumeConsumerGroup for
\* the consumer's group: pauseAll (resumeAll) on the manager's consumers,
\* then the status update, which the store accepts (storeOK) or not; when
\* pauseAll (resumeAll) rejects, the status is not written
PauseConsumerGroup(storeOK) ==
    /\ pc = "idle"
    /\ paused' = (paused \/ running)
    /\ groupStatus' = IF running /\ storeOK
                      THEN UpdateGroupStatus(groupStatus, "PAUSED")
                      ELSE groupStatus
    /\ lastOp' = [ op |-> "pauseGroup", wasConnected |-> connected,
                   statusBefore |-> groupStatus, reg |-> "none",
                   brokerCalls |-> {"pause"},
                   storeWrites |-> IF running THEN {"status"} ELSE {},
                   result |-> IF running /\ storeOK THEN "ok" ELSE "failed" ]
    /\ UNCHANGED <<connected, running, consumerGroupId, storeVars,
                   dispatchVars, brokerVars, publisherVars, managerVars, monitorVars>>

ResumeConsumerGroup(storeOK) ==
    /\ pc = "idle"
    /\ paused' = (paused /\ ~running)
    /\ groupStatus' = IF running /\ storeOK
                      THEN UpdateGroupStatus(groupStatus, "ACTIVE")
                      ELSE groupStatus
    /\ lastOp' = [ op |-> "resumeGroup", wasConnected |-> connected,
                   statusBefore |-> groupStatus, reg |-> "none",
                   brokerCalls |-> {"resume"},
                   storeWrites |-> IF running THEN {"status"} ELSE {},
                   result |-> IF running /\ storeOK THEN "ok" ELSE "failed" ]
    /\ UNCHANGED <<connected, running, consumerGroupId, storeVars,
                   dispatchVars, brokerVars, publisherVars, managerVars, monitorVars>>

\* -------------------------------------------------------- the dispatch call
\* where the catch block of handleMessage goes first
CatchEntry == IF processingId # NoId THEN "track_fail"
              ELSE IF consumerGroupId # 0 THEN "track_error"
              ELSE "rethrow"

\* the dispatch call returns normally: the broker moves past the record
ReturnFrom ==
    /\ pc' = "idle"
    /\ outcome' = "returned"
    /\ raised' = NoErr
    /\ pending' = IF pending = msg THEN NoMsg ELSE pending
    /\ attempts' = IF pending = msg THEN 0 ELSE attempts

\* handleMessage up to its first await: read the value, JSON.parse it, log
BeginDispatch(m) ==
    /\ pc = "idle"
    /\ running
    /\ deliveries < MaxDeliveries
    /\ msg' = m
    /\ processingId' = NoId
    /\ handlerCalls' = 0
    /\ handlerResult' = NoErr
    /\ attempted' = {}
    /\ rejected' = {}
    /\ deliveries' = deliveries + 1
    /\ IF EventData(m.value) \in {NoVal, ""}
       THEN /\ caught' = NoErr
            /\ ReturnFrom
       ELSE IF ParseThrows(m.value) # NoErr
       THEN /\ caught' = ParseThrows(m.value)
            /\ pc' = IF consumerGroupId # 0 THEN "track_error" ELSE "rethrow"
            /\ outcome' = "none" /\ raised' = NoErr
            /\ UNCHANGED <<pending, attempts>>
       ELSE /\ caught' = NoErr
            /\ pc' = IF consumerGroupId # 0 THEN "track_start" ELSE "handle"
            /\ outcome' = "none" /\ raised' = NoErr
            /\ UNCHANGED <<pending, attempts>>
    /\ UNCHANGED <<consumerVars, storeVars, lostUpdate, publisherVars,
                   managerVars, monitorVars>>

\* the broker hands a fresh record to eachMessage
Deliver(tp, v) ==
    /\ nextOffset <= MaxOffset
    /\ nextOffset' = nextOffset + 1
    /\ BeginDispatch([topic |-> tp[1], partition |-> tp[2],
                      offset |-> Digits(nextOffset), value |-> v])

\* the broker hands the record of a failed dispatch call to eachMessage again
Redeliver ==
    /\ pending # NoMsg
    /\ UNCHANGED nextOffset
    /\ BeginDispatch(pending)

\* where handleMessage goes after the start-tracking write: the inner
\* try/catch logs a failure and handling goes on
AfterTrackStartPropagates(o) == IF o = "ok" THEN "handle" ELSE "rethrow"
AfterTrackStart(o) == "handle"

\* startMessageProcessing -> createMessageProcessing (INSERT, then SELECT of
\* the inserted row).  o = "ok", "insertFail" or "selectFail".
TrackStart(o) ==
    /\ pc = "track_start"
    /\ LET row == NewProcessingRow(consumerGroupId, msg) IN
       /\ mp' = IF o = "insertFail" THEN mp ELSE Append(mp, row)
       /\ processingId' = IF o = "ok" THEN row.id ELSE NoId
       /\ lostUpdate' = IF o = "selectFail" THEN lostUpdate \cup {row.id}
                        ELSE lostUpdate
    /\ attempted' = attempted \cup {"start"}
    /\ rejected' = IF o = "ok" THEN rejected ELSE rejected \cup {"start"}
    /\ pc' = AfterTrackStart(o)
    /\ UNCHANGED <<consumerVars, errs, msg, caught, handlerCalls,
                   handlerResult, outcome, raised, brokerVars, publisherVars,
                   managerVars, monitorVars>>

\* messageHandler.handle(event, message): r is NoErr when the handler
\* returns, else the error it throws; the default branch of the handler's
\* switch only warns
Handle(r) ==
    /\ pc = "handle"
    /\ HandlerKnows(msg.value.eventType) \/ r = NoErr
    /\ handlerCalls' = handlerCalls + 1
    /\ handlerResult' = r
    /\ caught' = r
    /\ IF r = NoErr
       THEN IF processingId # NoId
            THEN /\ pc' = "track_complete"
                 /\ UNCHANGED <<outcome, raised, pending, attempts>>
            ELSE ReturnFrom
       ELSE /\ pc' = CatchEntry
            /\ UNCHANGED <<outcome, raised, pending, attempts>>
    /\ UNCHANGED <<consumerVars, storeVars, msg, processingId, attempted,
                   rejected, lostUpdate, deliveries, nextOffset,
                   publisherVars, managerVars, monitorVars>>

\* completeMessageProcessing -> updateMessageProcessing; a rejected update
\* is logged and swallowed
TrackComplete(ok) ==
    /\ pc = "track_complete"
    /\ mp' = IF ok THEN UpdateProcessing(mp, processingId, "COMPLETED", NoCount)
             ELSE mp
    /\ lostUpdate' = IF ok THEN lostUpdate ELSE lostUpdate \cup {processingId}
    /\ attempted' = attempted \cup {"complete"}
    /\ rejected' = IF ok THEN rejected ELSE rejected \cup {"complete"}
    /\ ReturnFrom
    /\ UNCHANGED <<consumerVars, errs, msg, processingId, caught,
                   handlerCalls, handlerResult, deliveries, nextOffset,
                   publisherVars, managerVars, monitorVars>>

\* catch block, first write: failMessageProcessing(processingId, error, 0)
TrackFail(ok) ==
    /\ pc = "track_fail"
    /\ mp' = IF ok
             THEN UpdateProcessing(mp, processingId,
                                   FailStatus(DispatchRetryCount),
                                   DispatchRetryCount)
             ELSE mp
    /\ lostUpdate' = IF ok THEN lostUpdate ELSE lostUpdate \cup {processingId}
    /\ attempted' = attempted \cup {"fail"}
    /\ rejected' = IF ok THEN rejected ELSE rejected \cup {"fail"}
    /\ pc' = IF consumerGroupId # 0 THEN "track_error" ELSE "rethrow"
    /\ UNCHANGED <<consumerVars, errs, msg, processingId, caught,
                   handlerCalls, handlerResult, outcome, raised, brokerVars,
                   publisherVars, managerVars, monitorVars>>

\* building the context of trackConsumerError re-parses message.value
\* (JSON.parse(message.value.toString()).eventType) inside the inner try:
\* when that throws, the call is never made
ContextThrowsNever(v) == FALSE
ContextThrows(v) == ParseThrows(v) # NoErr

\* catch block, second write: trackConsumerError(consumerGroupId, error,
\* {...}) -> createConsumerError (INSERT, then SELECT of the inserted row).
\* o = "ok", "insertFail" or "selectFail".
TrackError(o) ==
    /\ pc = "track_error"
    /\ LET ctx == [ messageProcessingId |-> processingId,
                    topic |-> msg.topic,
                    partition |-> msg.partition,
                    offset |-> NumberOf(msg.offset),
                    eventType |-> msg.value.eventType,
                    retryCount |-> DispatchRetryCount ]
       IN IF ContextThrows(msg.value)
          THEN UNCHANGED <<errs, attempted, rejected>>
          ELSE /\ errs' = IF o = "insertFail" THEN errs
                          ELSE Append(errs,
                                      NewErrorRow(consumerGroupId, caught, ctx))
               /\ attempted' = attempted \cup {"error"}
               /\ rejected' = IF o = "ok" THEN rejected
                              ELSE rejected \cup {"error"}
    /\ pc' = "rethrow"
    /\ UNCHANGED <<consumerVars, mp, msg, processingId, caught, handlerCalls,
                   handlerResult, outcome, raised, lostUpdate, brokerVars,
                   publisherVars, managerVars, monitorVars>>

\* handleError (logs) and "throw error": the broker client sees the error
\* and will hand the same record to eachMessage again
RethrowSwallows ==
    /\ pc = "rethrow"
    /\ ReturnFrom
    /\ UNCHANGED <<consumerVars, storeVars, msg, processingId, caught,
                   handlerCalls, handlerResult, attempted, rejected,
                   lostUpdate, deliveries, nextOffset, publisherVars,
                   managerVars, monitorVars>>
Rethrow ==
    /\ pc = "rethrow"
    /\ pc' = "idle"
    /\ outcome' = "raised"
    /\ raised' = caught
    /\ attempts' = IF pending = msg THEN attempts + 1 ELSE 1
    /\ pending' = msg
    /\ UNCHANGED <<consumerVars, storeVars, msg, processingId, caught,
                   handlerCalls, handlerResult, attempted, rejected,
                   lostUpdate, deliveries, nextOffset, publisherVars,
                   managerVars, monitorVars>>

\* --------------------------------------------------------------- producers
\* ProducerFactory.getProducer: the topic's producer, created on first use
GetProducer(prods, t) ==
    IF t \in DOMAIN prods THEN prods
    ELSE [x \in DOMAIN prods \cup {t} |->
             IF x = t THEN "disconnected" ELSE prods[x]]

\* EventPublisher.initialize: createProducers for the catalog, then
\* connectAll; conn[t] says whether the broker accepts t's connect
Initialize(conn) ==
    /\ ~initialized
    /\ LET created == [t \in DOMAIN producers \cup CatalogTopics |->
                          IF t \in DOMAIN producers THEN producers[t]
                          ELSE "disconnected"]
           after == [t \in DOMAIN created |->
                          IF created[t] = "connected" \/ conn[t]
                          THEN "connected" ELSE "disconnected"]
       IN /\ producers' = after
          /\ initialized' = (\A t \in DOMAIN after : after[t] = "connected")
    /\ UNCHANGED <<consumerVars, storeVars, dispatchVars, brokerVars,
                   managerVars, monitorVars, emitted, lastPublish, batch, lastAdmin>>

\* EventPublisher.shutdown: disconnectAll, then forget the producers;
\* disc[t] says whether t's disconnect succeeds.  A failed disconnect leaves
\* the publisher initialized with the other producers disconnected.
Shutdown(disc) ==
    /\ initialized
    /\ LET after == [t \in DOMAIN producers |->
                        IF producers[t] = "connected" /\ ~disc[t]
                        THEN "connected" ELSE "disconnected"]
           allOK == \A t \in DOMAIN after : after[t] = "disconnected"
       IN /\ producers' = IF allOK THEN [t \in {} |-> "disconnected"]
                          ELSE after
          /\ initialized' = ~allOK
    /\ UNCHANGED <<consumerVars, storeVars, dispatchVars, brokerVars,
                   managerVars, monitorVars, emitted, lastPublish, batch, lastAdmin>>

\* JSON.stringify(event): the defined fields, in declaration order
Stringify(e) ==
    LET all == << <<"eventId", e.eventId>>, <<"eventType", e.eventType>>,
                  <<"correlationId", e.correlationId>> >>
    IN SelectSeq(all, LAMBDA f : f[2] # NoVal)

\* JSON.parse(text)[name]
JsonField(json, name) ==
    IF \E i \in 1..Len(json) : json[i][1] = name
    THEN json[CHOOSE i \in 1..Len(json) : json[i][1] = name][2]
    ELSE NoVal

\* the transport key BaseProducer.send gives the record: key || event.eventId
MessageKey(e, key) == IF key \in {NoVal, ""} THEN e.eventId ELSE key

\* the transport headers BaseProducer.send mirrors from the envelope
MessageHeadersMirrorCorrelation(e) ==
    { <<"eventType", e.eventType>>, <<"eventId", e.correlationId>> }
MessageHeaders(e) ==
    { <<"eventType", e.eventType>>, <<"eventId", e.eventId>> }
      \cup (IF e.correlationId \in {NoVal, ""} THEN {}
            ELSE { <<"correlationId", e.correlationId>> })

HeaderOf(rec, name) ==
    IF \E h \in rec.headers : h[1] = name
    THEN (CHOOSE h \in rec.headers : h[1] = name)[2]
    ELSE NoVal

\* the records one BaseProducer.send hands to producer.send
SendRecordsTwice(t, e, key) ==
    LET rec == [topic |-> t, key |-> MessageKey(e, key),
                value |-> Stringify(e), headers |-> MessageHeaders(e)]
    IN << rec, rec >>
SendRecords(t, e, key) ==
    << [topic |-> t, key |-> MessageKey(e, key),
        value |-> Stringify(e), headers |-> MessageHeaders(e)] >>

\* publish and publishBatch go on past their first statement only on an
\* initialized publisher
PublishAllowedAlways(init) == TRUE
PublishAllowed(init) == init

\* publish connects a producer that is not connected before sending
LazyConnectNever(isConn) == FALSE
LazyConnect(isConn) == ~isConn

\* EventPublisher.publish(topic, event, key).  connectOK / brokerOK: whether
\* the broker accepts a connect attempt / BaseProducer.send succeeds.
Publish(t, e, key, connectOK, brokerOK) ==
    /\ IF ~PublishAllowed(initialized)
       THEN /\ lastPublish' = [NoPublish EXCEPT !.called = TRUE, !.topic = t,
                                  !.event = e, !.key = key,
                                  !.result = "notInitialized"]
            /\ UNCHANGED <<initialized, producers, emitted>>
       ELSE LET got == GetProducer(producers, t)
                wasConn == got[t] = "connected"
                tryConn == LazyConnect(wasConn)
                isConn == wasConn \/ (tryConn /\ connectOK)
                connFailed == tryConn /\ ~connectOK
                trySend == ~connFailed
                sendOK == trySend /\ isConn /\ brokerOK
            IN /\ sendOK => Len(emitted) < MaxEmitted
               /\ producers' = [got EXCEPT ![t] = IF isConn THEN "connected"
                                                  ELSE "disconnected"]
               /\ emitted' = IF sendOK THEN emitted \o SendRecords(t, e, key)
                             ELSE emitted
               /\ lastPublish' =
                    [ called |-> TRUE, topic |-> t, event |-> e, key |-> key,
                      wasConnected |-> wasConn,
                      connectTried |-> tryConn,
                      connectOK |-> connectOK,
                      sendTried |-> trySend,
                      brokerOK |-> brokerOK,
                      emittedBefore |-> Len(emitted),
                      result |-> IF sendOK THEN "ok" ELSE "failed" ]
               /\ UNCHANGED initialized
    /\ UNCHANGED <<consumerVars, storeVars, dispatchVars, brokerVars,
                   managerVars, monitorVars, batch, lastAdmin>>

\* ------------------------------------------------------------ publishBatch
\* the entries a publishBatch call may carry: either event on either topic
BatchEntries ==
    { [topic |-> t, event |-> e,
       key |-> IF e.correlationId = NoVal THEN NoVal ELSE "CUST-1"] :
         t \in CatalogTopics, e \in PublishEvents }

RECURSIVE SeqsUpTo(_, _)
\* the sequences over S of length at most n
SeqsUpTo(S, n) ==
    IF n = 0 THEN { <<>> }
    ELSE LET shorter == SeqsUpTo(S, n - 1)
         IN shorter \cup { Append(q, x) : q \in shorter, x \in S }

\* eventsByTopic: the entries of the call grouped by topic
TopicsOf(entries) == { entries[i].topic : i \in 1..Len(entries) }
EntriesOf(entries, t) == { i \in 1..Len(entries) : entries[i].topic = t }

\* ProducerFactory.getProducer for every topic of the call
GetProducers(prods, ts) ==
    [t \in DOMAIN prods \cup ts |->
        IF t \in DOMAIN prods THEN prods[t] ELSE "disconnected"]

\* a connect or a send started by a publishBatch call has not finished
BatchInFlight ==
    \/ \E t \in DOMAIN batch.branch : batch.branch[t] = "connecting"
    \/ \E i \in 1..Len(batch.sends) : batch.sends[i] = "inflight"

\* the outer Promise.all and the catch of publishBatch: the call returns
\* "ok" once every branch is done, and "failed" as soon as one branch
\* rejects; b is the call after the step, em the records emitted so far
Settle(b, em) ==
    IF b.state # "running" THEN b
    ELSE IF \E t \in DOMAIN b.branch : b.branch[t] = "failed"
    THEN [b EXCEPT !.state = "failed", !.emittedAtReturn = Len(em)]
    ELSE IF \A t \in DOMAIN b.branch : b.branch[t] = "done"
    THEN [b EXCEPT !.state = "ok", !.emittedAtReturn = Len(em)]
    ELSE b

\* what a failing branch does to the records the call has emitted: the
\* catch of publishBatch logs and rethrows
AfterFailureRollsBack(em, before) == SubSeq(em, 1, before)
AfterFailure(em, before) == em

\* EventPublisher.publishBatch(entries) up to the first await of each
\* per-topic branch: a branch whose producer is connected starts one
\* producer.send per entry, the others start producer.connect()
PublishBatch(entries) ==
    /\ ~BatchInFlight
    /\ Len(emitted) + Len(entries) <= MaxBatchEmitted
    /\ IF ~PublishAllowed(initialized)
       THEN /\ batch' = [NoBatch EXCEPT !.state = "notInitialized",
                                        !.entries = entries,
                                        !.emittedBefore = Len(emitted),
                                        !.emittedAtReturn = Len(emitted)]
            /\ UNCHANGED producers
       ELSE IF entries = <<>>
       THEN /\ batch' = [NoBatch EXCEPT !.state = "empty",
                                        !.emittedBefore = Len(emitted),
                                        !.emittedAtReturn = Len(emitted)]
            /\ UNCHANGED producers
       ELSE LET got == GetProducers(producers, TopicsOf(entries)) IN
            /\ producers' = got
            /\ batch' =
                 [ state |-> "running",
                   entries |-> entries,
                   branch |-> [t \in TopicsOf(entries) |->
                                  IF got[t] = "connected" THEN "sending"
                                  ELSE "connecting"],
                   sends |-> [i \in 1..Len(entries) |->
                                  IF got[entries[i].topic] = "connected"
                                  THEN "inflight" ELSE "waiting"],
                   emittedBefore |-> Len(emitted),
                   emittedAtReturn |-> NoCount ]
    /\ UNCHANGED <<consumerVars, storeVars, dispatchVars, brokerVars,
                   managerVars, monitorVars, initialized, emitted, lastPublish,
                   lastAdmin>>

\* the producer.connect() of topic t's branch finishes: on success the
\* branch starts one producer.send per entry of the topic
BatchConnectDone(t, ok) ==
    /\ t \in DOMAIN batch.branch
    /\ batch.branch[t] = "connecting"
    /\ producers' = [producers EXCEPT ![t] = IF ok THEN "connected" ELSE @]
    /\ LET b == [batch EXCEPT
                   !.branch[t] = IF ok THEN "sending" ELSE "failed",
                   !.sends = [i \in 1..Len(batch.sends) |->
                                 IF ok /\ i \in EntriesOf(batch.entries, t)
                                 THEN "inflight" ELSE batch.sends[i]]]
           em == IF ok THEN emitted
                 ELSE AfterFailure(emitted, batch.emittedBefore)
       IN /\ emitted' = em
          /\ batch' = Settle(b, em)
    /\ UNCHANGED <<consumerVars, storeVars, dispatchVars, brokerVars,
                   managerVars, monitorVars, initialized, lastPublish, lastAdmin>>

\* the producer.send of entry i finishes: the broker accepted the record,
\* or the send rejects and with it the inner Promise.all of its branch
BatchSendDone(i, ok) ==
    /\ i \in 1..Len(batch.sends)
    /\ batch.sends[i] = "inflight"
    /\ LET e == batch.entries[i]
           sends == [batch.sends EXCEPT ![i] = IF ok THEN "sent" ELSE "failed"]
           allSent == \A j \in EntriesOf(batch.entries, e.topic) :
                          sends[j] = "sent"
           b == [batch EXCEPT
                   !.sends = sends,
                   !.branch[e.topic] = IF ~ok THEN "failed"
                                       ELSE IF @ = "sending" /\ allSent
                                       THEN "done" ELSE @]
           em == IF ok THEN emitted \o SendRecords(e.topic, e.event, e.key)
                 ELSE AfterFailure(emitted, batch.emittedBefore)
       IN /\ emitted' = em
          /\ batch' = Settle(b, em)
    /\ UNCHANGED <<consumerVars, storeVars, dispatchVars, brokerVars,
                   managerVars, monitorVars, initialized, producers, lastPublish,
                   lastAdmin>>

\* publishBatch calls, with initialize and shutdown called between them
NextBatch ==
    \/ \E conn \in [CatalogTopics -> BOOLEAN] :
          ~BatchInFlight /\ Initialize(conn)
    \/ \E disc \in [CatalogTopics -> BOOLEAN] :
          ~BatchInFlight /\ Shutdown(disc)
    \/ \E entries \in SeqsUpTo(BatchEntries, MaxBatchEmitted) :
          PublishBatch(entries)
    \/ \E t \in CatalogTopics, ok \in BOOLEAN : BatchConnectDone(t, ok)
    \/ \E i \in 1..MaxBatchEmitted, ok \in BOOLEAN : BatchSendDone(i, ok)

SpecBatch == Init /\ [][NextBatch]_vars

\* -------------------------------------------- initialize / shutdown calls
\* ProducerFactory.createProducers(Object.values(KafkaTopics))
CreateProducers(prods) == GetProducers(prods, CatalogTopics)

\* the topics whose producer holds a broker connection
ConnectedTopics == {t \in DOMAIN producers : producers[t] = "connected"}

\* EventPublisher.initialize() as its caller sees it.  An initialized
\* publisher warns and returns.  Otherwise the catalog's producers are
\* created and connectAll connects them: BaseProducer.connect asks the
\* broker only for a producer that is not connected, and conn[t] says
\* whether the broker accepts.  initialized is set when every connect
\* succeeded; a failed call leaves the producers that did connect connected.
PublisherInitialize(conn) ==
    /\ IF initialized
       THEN /\ lastAdmin' = [ op |-> "initialize", prevOp |-> lastAdmin.op,
                              prevOK |-> lastAdmin.ok,
                              prevIssued |-> lastAdmin.issued,
                              wasInitialized |-> initialized,
                              connectedBefore |-> ConnectedTopics,
                              issued |-> {}, ok |-> TRUE ]
            /\ UNCHANGED <<initialized, producers>>
       ELSE LET created == CreateProducers(producers)
                asked == {t \in DOMAIN created : created[t] # "connected"}
                after == [t \in DOMAIN created |->
                             IF t \notin asked \/ conn[t]
                             THEN "connected" ELSE "disconnected"]
                allOK == \A t \in DOMAIN after : after[t] = "connected"
            IN /\ producers' = after
               /\ initialized' = allOK
               /\ lastAdmin' = [ op |-> "initialize", prevOp |-> lastAdmin.op,
                                 prevOK |-> lastAdmin.ok,
                                 prevIssued |-> lastAdmin.issued,
                                 wasInitialized |-> initialized,
                                 connectedBefore |-> ConnectedTopics,
                                 issued |-> asked, ok |-> allOK ]
    /\ UNCHANGED <<consumerVars, storeVars, dispatchVars, brokerVars,
                   managerVars, monitorVars, emitted, lastPublish, batch>>

\* EventPublisher.shutdown() as its caller sees it.  A publisher that is not
\* initialized warns and returns.  Otherwise disconnectAll disconnects the
\* connected producers (disc[t]: the broker client's disconnect succeeds);
\* when all succeeded the factory forgets its producers and initialized is
\* cleared, else the call fails and the publisher stays initialized.
PublisherShutdown(disc) ==
    /\ IF ~initialized
       THEN /\ lastAdmin' = [ op |-> "shutdown", prevOp |-> lastAdmin.op,
                              prevOK |-> lastAdmin.ok,
                              prevIssued |-> lastAdmin.issued,
                              wasInitialized |-> initialized,
                              connectedBefore |-> ConnectedTopics,
                              issued |-> {}, ok |-> TRUE ]
            /\ UNCHANGED <<initialized, producers>>
       ELSE LET asked == {t \in DOMAIN producers : producers[t] = "connected"}
                after == [t \in DOMAIN producers |->
                             IF t \in asked /\ ~disc[t]
                             THEN "connected" ELSE "disconnected"]
                allOK == \A t \in DOMAIN after : after[t] = "disconnected"
            IN /\ producers' = IF allOK THEN [t \in {} |-> "disconnected"]
                               ELSE after
               /\ initialized' = ~allOK
               /\ lastAdmin' = [ op |-> "shutdown", prevOp |-> lastAdmin.op,
                                 prevOK |-> lastAdmin.ok,
                                 prevIssued |-> lastAdmin.issued,
                                 wasInitialized |-> initialized,
                                 connectedBefore |-> ConnectedTopics,
                                 issued |-> asked, ok |-> allOK ]
    /\ UNCHANGED <<consumerVars, storeVars, dispatchVars, brokerVars,
                   managerVars, monitorVars, emitted, lastPublish, batch>>

\* ProducerFactory.getProducer(topic) called from outside the publisher: the
\* topic's producer is created, not connected, when the pool has none
FactoryGetProducer(t) ==
    /\ t \notin DOMAIN producers
    /\ producers' = GetProducer(producers, t)
    /\ UNCHANGED <<consumerVars, storeVars, dispatchVars, brokerVars,
                   managerVars, monitorVars, initialized, emitted, lastPublish, batch,
                   lastAdmin>>

\* initialize and shutdown called one after the other, in any order
NextAdmin ==
    \/ \E t \in CatalogTopics : FactoryGetProducer(t)
    \/ \E conn \in [CatalogTopics -> BOOLEAN] : PublisherInitialize(conn)
    \/ \E disc \in [CatalogTopics -> BOOLEAN] : PublisherShutdown(disc)

SpecAdmin == Init /\ [][NextAdmin]_vars

NextPublish ==
    \/ \E conn \in [CatalogTopics -> BOOLEAN] : Initialize(conn)
    \/ \E disc \in [CatalogTopics -> BOOLEAN] : Shutdown(disc)
    \/ \E t \in CatalogTopics, e \in PublishEvents, key \in Keys,
          c \in BOOLEAN, b \in BOOLEAN : Publish(t, e, key, c, b)

SpecPublish == Init /\ [][NextPublish]_vars

TrackOutcomes == {"ok", "insertFail", "selectFail"}
RegOutcomes == {"ok", "upsertFail", "readFail", "statusFail"}

NextDispatch ==
    \/ \E b \in BOOLEAN, reg \in RegOutcomes : Connect(b, reg)
    \/ \E b \in BOOLEAN : Subscribe(b)
    \/ \E b \in BOOLEAN : Disconnect(b)
    \/ \E tp \in Assigned, v \in Values : Deliver(tp, v)
    \/ Redeliver
    \/ \E o \in TrackOutcomes : TrackStart(o)
    \/ \E r \in HandlerErrors \cup {NoErr} : Handle(r)
    \/ \E ok \in BOOLEAN : TrackComplete(ok)
    \/ \E ok \in BOOLEAN : TrackFail(ok)
    \/ \E o \in TrackOutcomes : TrackError(o)
    \/ Rethrow

SpecDispatch == Init /\ [][NextDispatch]_vars

\* lifecycle calls on one consumer and pause / resume requests for its group
NextLifecycle ==
    \/ \E b \in BOOLEAN, reg \in RegOutcomes : ConsumerConnect(b, reg)
    \/ \E b \in BOOLEAN : ConsumerSubscribe(b)
    \/ \E b \in BOOLEAN : ConsumerDisconnect(b)
    \/ ConsumerPause
    \/ ConsumerResume
    \/ \E ok \in BOOLEAN : PauseConsumerGroup(ok)
    \/ \E ok \in BOOLEAN : ResumeConsumerGroup(ok)

SpecLifecycle == Init /\ [][NextLifecycle]_vars

\* --------------------------------------- ConsumerManager / ConsumerFactory
\* ConsumerFactory.createConsumer: the consumer registered under the key,
\* created when the factory has none
CreateConsumer(p, k) ==
    IF k \in DOMAIN p THEN p
    ELSE [x \in DOMAIN p \cup {k} |-> IF x = k THEN NewConsumer ELSE p[x]]

RECURSIVE CreateConsumers(_, _)
\* the first n create...Consumer() calls of ConsumerManager.initialize
CreateConsumers(p, n) ==
    IF n = 0 THEN p
    ELSE CreateConsumer(CreateConsumers(p, n - 1), GroupOrder[n])

\* the consumers on ConsumerManager's list
Managed == { mgrConsumers[i] : i \in 1..Len(mgrConsumers) }

\* ConsumerManager.initialize().  An initialized manager warns and returns.
\* Otherwise the consumers are created in order and pushed on the manager's
\* list; n is the number of create calls that return before one throws
\* (resolving its handler fails), n = Len(GroupOrder) when none throws.
ManagerInitialize(n) ==
    /\ IF mgrInitialized
       THEN /\ lastMgr' = [NoMgr EXCEPT !.op = "initialize",
                                        !.prevOp = lastMgr.op,
                                        !.prevWasInitialized = lastMgr.wasInitialized,
                                        !.wasInitialized = TRUE,
                                        !.result = "ok"]
            /\ UNCHANGED <<mgrInitialized, mgrConsumers, pool>>
       ELSE /\ Len(mgrConsumers) + n <= MaxManaged
            /\ pool' = CreateConsumers(pool, n)
            /\ mgrConsumers' = mgrConsumers \o SubSeq(GroupOrder, 1, n)
            /\ mgrInitialized' = (n = Len(GroupOrder))
            /\ lastMgr' = [NoMgr EXCEPT !.op = "initialize",
                                        !.prevOp = lastMgr.op,
                                        !.prevWasInitialized = lastMgr.wasInitialized,
                                        !.result = IF n = Len(GroupOrder)
                                                   THEN "ok" ELSE "failed"]
    /\ UNCHANGED <<consumerVars, storeVars, dispatchVars, brokerVars,
                   publisherVars, monitorVars, groupRows, lastReq>>

\* startAll goes on past its guard only on an initialized manager
StartAllowedAlways(init) == TRUE
StartAllowed(init) == init

\* what startAll's catch block leaves of the consumers its connects and
\* subscribes changed: it logs and rethrows
AfterStartFailureRollsBack(before, reached) == before
AfterStartFailure(before, reached) == reached

\* what the broker and the tracking store do with one consumer in a
\* startAll: conn, the broker accepts its connect; reg, what the store does
\* with the registration that follows an accepted connect (on the status
\* column "readFail" is "statusFail"); sub, the broker accepts its subscribe
\* and run.  A refused connect leaves nothing to register.
StartOutcomes ==
    { [conn |-> FALSE, reg |-> "none", sub |-> FALSE] } \cup
    [ conn : {TRUE}, reg : {"ok", "upsertFail", "statusFail"}, sub : BOOLEAN ]

\* startAll awaits connectAll before it calls subscribeAll: subscribeAll is
\* reached only when every connect() of the pool resolved
SubscribeAllReachedAnyway(conn) == TRUE
SubscribeAllReached(conn) == \A k \in DOMAIN conn : conn[k].connected

\* ConsumerManager.startAll().  It throws when the manager is not
\* initialized.  Otherwise ConsumerFactory.connectAll connects every consumer
\* of the factory that is not connected (a consumer that connected registers
\* its group) and, when all are connected, subscribeAll subscribes every
\* consumer; o[k] is what happens to consumer k.  The step covers the call
\* with every connect or subscribe it started.
StartAll(o) ==
    /\ IF ~StartAllowed(mgrInitialized)
       THEN /\ lastMgr' = [NoMgr EXCEPT !.op = "startAll",
                                        !.prevOp = lastMgr.op,
                                        !.prevWasInitialized = lastMgr.wasInitialized,
                                        !.wasInitialized = mgrInitialized,
                                        !.result = "rejected"]
            /\ UNCHANGED <<pool, groupRows>>
       ELSE LET asked == {k \in DOMAIN pool : ~pool[k].connected}
                accepted == {k \in asked : o[k].conn}
                conn == [k \in DOMAIN pool |->
                            [pool[k] EXCEPT
                               !.connected = @ \/ o[k].conn]]
                allConn == SubscribeAllReached(conn)
                begun == IF allConn THEN {k \in DOMAIN pool : o[k].sub}
                         ELSE {}
                subs == [k \in DOMAIN pool |->
                            [conn[k] EXCEPT !.running = @ \/ (k \in begun)]]
                allSub == \A k \in DOMAIN pool : o[k].sub
                ok == allConn /\ allSub
            IN /\ pool' = IF ok THEN subs ELSE AfterStartFailure(pool, subs)
               /\ groupRows' = [g \in Groups |->
                                  IF g \in accepted
                                  THEN RegisteredStatus(o[g].reg, groupRows[g])
                                  ELSE groupRows[g]]
               /\ lastMgr' = [NoMgr EXCEPT
                                !.op = "startAll",
                                !.prevOp = lastMgr.op,
                                !.prevWasInitialized = lastMgr.wasInitialized,
                                !.wasInitialized = mgrInitialized,
                                !.connects = asked,
                                !.subscribes = IF allConn THEN DOMAIN pool
                                               ELSE {},
                                !.accepted = accepted,
                                !.begun = begun,
                                !.result = IF ok THEN "ok" ELSE "failed"]
    /\ UNCHANGED <<consumerVars, storeVars, dispatchVars, brokerVars,
                   publisherVars, monitorVars, mgrInitialized, mgrConsumers, lastReq>>

\* stopAll returns at its guard on a manager that is not initialized
StopReturnsEarlyNever(init) == FALSE
StopReturnsEarly(init) == ~init

\* ConsumerManager.stopAll().  A manager that is not initialized warns and
\* returns.  Otherwise ConsumerFactory.disconnectAll disconnects every
\* connected consumer (discOK[k]); when all succeeded the factory forgets its
\* consumers, the manager's list is emptied and initialized is cleared, else
\* the call fails and the manager stays initialized.
StopAll(discOK) ==
    /\ IF StopReturnsEarly(mgrInitialized)
       THEN /\ lastMgr' = [NoMgr EXCEPT !.op = "stopAll",
                                        !.prevOp = lastMgr.op,
                                        !.prevWasInitialized = lastMgr.wasInitialized,
                                        !.wasInitialized = mgrInitialized,
                                        !.result = "ok"]
            /\ UNCHANGED <<mgrInitialized, mgrConsumers, pool>>
       ELSE LET asked == {k \in DOMAIN pool : pool[k].connected}
                after == [k \in DOMAIN pool |->
                            IF k \in asked /\ discOK[k]
                            THEN NewConsumer ELSE pool[k]]
                allOK == \A k \in asked : discOK[k]
            IN /\ pool' = IF allOK THEN [k \in {} |-> NewConsumer] ELSE after
               /\ mgrConsumers' = IF allOK THEN <<>> ELSE mgrConsumers
               /\ mgrInitialized' = ~allOK
               /\ lastMgr' = [NoMgr EXCEPT !.op = "stopAll",
                                           !.prevOp = lastMgr.op,
                                           !.prevWasInitialized = lastMgr.wasInitialized,
                                           !.wasInitialized = mgrInitialized,
                                           !.disconnects = asked,
                                           !.left = {k \in DOMAIN after :
                                                       after[k].connected},
                                           !.result = IF allOK THEN "ok"
                                                      ELSE "failed"]
    /\ UNCHANGED <<consumerVars, storeVars, dispatchVars, brokerVars,
                   publisherVars, monitorVars, groupRows, lastReq>>

\* ConsumerManager.pauseAll() / resumeAll(): pause() / resume() on every
\* consumer of the manager's list.  Each body runs to its end inside the
\* map, so every consumer whose run loop has been started is paused (resumed)
\* before Promise.all settles; the broker client rejects the others.
PauseAll(p, ks) ==
    [k \in DOMAIN p |->
        IF k \in ks /\ p[k].running THEN [p[k] EXCEPT !.paused = TRUE]
        ELSE p[k]]

ResumeAll(p, ks) ==
    [k \in DOMAIN p |->
        IF k \in ks /\ p[k].running THEN [p[k] EXCEPT !.paused = FALSE]
        ELSE p[k]]

\* whether pauseAll / resumeAll resolves
FanOutResolves(p, ks) == \A k \in ks : p[k].running

\* UPDATE kafka_consumer_groups SET status = ? WHERE group_id = ?
UpdateStatusOfEveryGroup(rows, gid, new) ==
    [g \in DOMAIN rows |-> IF rows[g] # "absent" THEN new ELSE rows[g]]
UpdateStatusWhere(rows, gid, new) ==
    [g \in DOMAIN rows |->
        IF g = gid /\ rows[g] # "absent" THEN new ELSE rows[g]]

\* KafkaMonitoringController.pauseConsumerGroup: pauseAll, then the status
\* update for the group id of the request (storeOK: the store accepts the
\* statement); 200 when both resolve, 500 from the catch block otherwise
PauseGroupRequest(gid, storeOK) ==
    LET resolves == FanOutResolves(pool, Managed)
    IN /\ pool' = PauseAll(pool, Managed)
       /\ groupRows' = IF resolves /\ storeOK
                       THEN UpdateStatusWhere(groupRows, gid, "PAUSED")
                       ELSE groupRows
       /\ lastReq' = [ op |-> "pause", groupId |-> gid,
                       http |-> IF resolves /\ storeOK THEN 200 ELSE 500 ]
       /\ UNCHANGED <<consumerVars, storeVars, dispatchVars, brokerVars,
                      publisherVars, monitorVars, mgrInitialized, mgrConsumers, lastMgr>>

\* KafkaMonitoringController.resumeConsumerGroup: resumeAll, then ACTIVE
ResumeGroupRequest(gid, storeOK) ==
    LET resolves == FanOutResolves(pool, Managed)
    IN /\ pool' = ResumeAll(pool, Managed)
       /\ groupRows' = IF resolves /\ storeOK
                       THEN UpdateStatusWhere(groupRows, gid, "ACTIVE")
                       ELSE groupRows
       /\ lastReq' = [ op |-> "resume", groupId |-> gid,
                       http |-> IF resolves /\ storeOK THEN 200 ELSE 500 ]
       /\ UNCHANGED <<consumerVars, storeVars, dispatchVars, brokerVars,
                      publisherVars, monitorVars, mgrInitialized, mgrConsumers, lastMgr>>

\* the manager's own calls
NextManager ==
    \/ \E n \in 0..Len(GroupOrder) : ManagerInitialize(n)
    \/ \E o \in [Groups -> StartOutcomes] : StartAll(o)
    \/ \E discOK \in [Groups -> BOOLEAN] : StopAll(discOK)

SpecManager == Init /\ [][NextManager]_vars

\* the manager's calls together with the pause / resume requests of the
\* HTTP control surface
NextControl ==
    \/ \E n \in 0..Len(GroupOrder) : ManagerInitialize(n)
    \/ \E o \in [Groups -> StartOutcomes] : StartAll(o)
    \/ \E discOK \in [Groups -> BOOLEAN] : StopAll(discOK)
    \/ \E gid \in RequestGroups, ok \in BOOLEAN : PauseGroupRequest(gid, ok)
    \/ \E gid \in RequestGroups, ok \in BOOLEAN : ResumeGroupRequest(gid, ok)

SpecControl == Init /\ [][NextControl]_vars

\* ------------------------------------------------- trackConsumerError
\* errors a caller hands to trackConsumerError: with or without a type name,
\* their message containing any of the markers
SeverityErrors == [ name : {NoVal, "TypeError"}, markers : SUBSET Markers ]

\* retry counts of the context: none, or 0..MaxRetryCount
RetryCounts == {NoCount} \cup 0..MaxRetryCount

\* ConsumerTrackingService.trackConsumerError(consumerGroupId, error,
\* context) for a context that carries only the retry count: the severity is
\* determined, then the row is inserted; when the store rejects the insert
\* (storeOK false) the call throws.
TrackConsumerError(err, rc, storeOK) ==
    /\ Len(errs) < MaxTracked
    /\ LET ctx == [ messageProcessingId |-> NoId, topic |-> NoVal,
                    partition |-> NoCount, offset |-> NoCount,
                    eventType |-> NoVal, retryCount |-> rc ]
           row == NewErrorRow(GroupRowId, err, ctx)
       IN /\ errs' = IF storeOK THEN Append(errs, row) ELSE errs
          /\ sev' = [ name |-> err.name, markers |-> err.markers,
                      retryCount |-> rc, severity |-> row.severity,
                      errorType |-> row.errorType, stored |-> storeOK ]
    /\ UNCHANGED <<consumerVars, mp, dispatchVars, brokerVars, publisherVars,
                   managerVars, regVars,
                   runnerVars, stampVars, health, ackVars, dashVars>>

NextSeverity ==
    \E err \in SeverityErrors, rc \in RetryCounts, ok \in BOOLEAN :
        TrackConsumerError(err, rc, ok)

SpecSeverity == Init /\ [][NextSeverity]_vars

\* ---------------------------------------------- getConsumerHealthReport
\* the lag column of a row of v_current_consumer_lag, NoCount for NULL
LagValues == {NoCount, 500, 5000, 12000}

\* getCurrentLag() rows of one group: SELECT ... ORDER BY lag DESC, NULL last
LagOrdered(a, b) == b = NoCount \/ (a # NoCount /\ a >= b)
LagRows ==
    UNION { { q \in [1..n -> LagValues] :
                \A i \in 1..(n - 1) : LagOrdered(q[i], q[i + 1]) } :
            n \in 0..MaxLagRows }

RECURSIVE TotalLag(_)
\* groupLag.reduce((sum, l) => sum + (l.lag || 0), 0)
TotalLag(q) ==
    IF q = <<>> THEN 0
    ELSE (IF Head(q) = NoCount THEN 0 ELSE Head(q)) + TotalLag(Tail(q))

\* the latest metrics row of the last hour: none, or its error_rate and
\* avg_processing_time_ms
MetricsRows ==
    {NoMetrics} \cup [ present : {TRUE}, errorRate : {5, 6, 10, 11},
                       avgProcessingTimeMs : {2000, 2001, 5000, 5001},
                       messagesPerSecond : {3} ]

\* how the driver hands over a DECIMAL column
DecimalForms == {"number", "string"}

\* latestMetrics?.errorRate || 0 and latestMetrics?.avgProcessingTimeMs || 0
ErrorRateOf(m) == IF m.present THEN m.errorRate ELSE 0
AvgProcessingTimeOf(m) == IF m.present THEN m.avgProcessingTimeMs ELSE 0
\* latestMetrics?.messagesPerSecond || 0
ThroughputOf(m) == IF m.present THEN m.messagesPerSecond ELSE 0

\* the report's metrics object
ReportMetrics(m, totalLag) ==
    [ avgProcessingTime |-> AvgProcessingTimeOf(m),
      errorRate |-> ErrorRateOf(m),
      lag |-> totalLag,
      throughput |-> ThroughputOf(m) ]

LagDeductionInclusive(totalLag) ==
    IF totalLag >= 10000 THEN 30 ELSE IF totalLag >= 1000 THEN 15 ELSE 0
LagDeduction(totalLag) ==
    IF totalLag > 10000 THEN 30 ELSE IF totalLag > 1000 THEN 15 ELSE 0

ErrorRateDeduction(errorRate) ==
    IF errorRate > 10 THEN 25 ELSE IF errorRate > 5 THEN 10 ELSE 0

ProcessingTimeDeduction(avg) ==
    IF avg > 5000 THEN 20 ELSE IF avg > 2000 THEN 10 ELSE 0

StatusDeduction(status) == IF status # "ACTIVE" THEN 40 ELSE 0

\* the score as the report carries it: the deductions are subtracted from
\* 100 one after the other and the result is returned as it is
HealthScore(totalLag, m, status) ==
    100 - LagDeduction(totalLag) - ErrorRateDeduction(ErrorRateOf(m))
        - ProcessingTimeDeduction(AvgProcessingTimeOf(m))
        - StatusDeduction(status)

HealthStatus(score) ==
    IF score >= 80 THEN "HEALTHY"
    ELSE IF score >= 50 THEN "WARNING"
    ELSE "CRITICAL"

\* errorRate.toFixed(2) in the description of an ERROR_RATE issue: a string
\* has no toFixed
ErrorRateIssueThrows(m, form) ==
    ErrorRateDeduction(ErrorRateOf(m)) > 0 /\ form = "string"

\* ConsumerTrackingService.getConsumerHealthReport(groupId).  status is the
\* group row's status, "absent" when there is no row; lag the group's rows
\* of the lag view; m the latest metrics row and form the driver's handing
\* over of its DECIMAL columns; storeOK whether the store answers the
\* queries.  The call returns a report or rethrows what it caught.
GetConsumerHealthReport(status, lag, m, form, storeOK) ==
    /\ ~m.present => form = "number"
    /\ health' =
          IF ~storeOK
          THEN [NoHealth EXCEPT !.result = "storeError"]
          ELSE IF status = "absent"
          THEN [NoHealth EXCEPT !.groupStatus = status,
                                !.result = "notFound"]
          ELSE IF ErrorRateIssueThrows(m, form)
          THEN [ groupStatus |-> status, totalLag |-> TotalLag(lag),
                 metrics |-> m, decimals |-> form, result |-> "TypeError",
                 healthScore |-> 0, status |-> NoVal,
                 reportMetrics |-> NoVal ]
          ELSE [ groupStatus |-> status, totalLag |-> TotalLag(lag),
                 metrics |-> m, decimals |-> form, result |-> "report",
                 healthScore |-> HealthScore(TotalLag(lag), m, status),
                 status |-> HealthStatus(
                               HealthScore(TotalLag(lag), m, status)),
                 reportMetrics |-> ReportMetrics(m, TotalLag(lag)) ]
    /\ UNCHANGED <<consumerVars, storeVars, dispatchVars, brokerVars,
                   publisherVars, managerVars, regVars,
                   runnerVars, stampVars, sev, ackVars,
                   dashVars>>

NextHealth ==
    \E status \in {"absent", "ACTIVE", "PAUSED"}, lag \in LagRows,
       m \in MetricsRows, form \in DecimalForms, ok \in BOOLEAN :
        GetConsumerHealthReport(status, lag, m, form, ok)

SpecHealth == Init /\ [][NextHealth]_vars

\* ------------------------------------------------ error acknowledgment
\* acknowledgedBy of a request body: absent, empty, or a name
Acknowledgers == {NoVal, "", "alice", "bob"}
ResolutionNotes == {NoVal, "fixed"}

\* ids a request can name: those of the rows and one past them
ErrorIds == 1..(MaxTracked + 1)

\* the row with the id, NoId when there is none
ErrorRowAt(rows, id) ==
    IF \E i \in 1..Len(rows) : rows[i].id = id
    THEN CHOOSE i \in 1..Len(rows) : rows[i].id = id
    ELSE NoId

\* if (!acknowledgedBy) of the controller
AcknowledgedByMissingOnlyAbsent(by) == by = NoVal
AcknowledgedByMissing(by) == by \in {NoVal, ""}

\* UPDATE kafka_consumer_errors SET acknowledged = 1, acknowledged_by = ?,
\* acknowledged_at = CURRENT_TIMESTAMP, resolution_notes = ? WHERE id = ?
AcknowledgeRowToggles(row, by, at, notes) ==
    [row EXCEPT !.acknowledged = ~@, !.acknowledgedBy = by,
                !.acknowledgedAt = at, !.resolutionNotes = notes]
AcknowledgeRow(row, by, at, notes) ==
    [row EXCEPT !.acknowledged = TRUE, !.acknowledgedBy = by,
                !.acknowledgedAt = at, !.resolutionNotes = notes]

AcknowledgeError(rows, id, by, at, notes) ==
    [i \in 1..Len(rows) |->
        IF rows[i].id = id THEN AcknowledgeRow(rows[i], by, at, notes)
        ELSE rows[i]]

\* KafkaMonitoringController.acknowledgeError for a request whose body is
\* an object: 400 when acknowledgedBy is falsy; otherwise the service and
\* the repository run the UPDATE, 200 when the store accepts it (storeOK)
\* and 500 from the catch block when it does not
AcknowledgeRequest(id, by, notes, storeOK) ==
    LET at == ErrorRowAt(errs, id)
        http == IF AcknowledgedByMissing(by) THEN 400
                ELSE IF storeOK THEN 200 ELSE 500
    IN /\ errs' = IF http = 200 THEN AcknowledgeError(errs, id, by, now, notes)
                  ELSE errs
       /\ lastAck' = [ errorId |-> id, acknowledgedBy |-> by,
                       resolutionNotes |-> notes,
                       wasAcknowledged |->
                           IF at = NoId THEN FALSE ELSE errs[at].acknowledged,
                       prevBy |->
                           IF at = NoId THEN NoVal ELSE errs[at].acknowledgedBy,
                       prevAt |->
                           IF at = NoId THEN NoCount
                           ELSE errs[at].acknowledgedAt,
                       http |-> http ]
       /\ UNCHANGED <<consumerVars, mp, dispatchVars, brokerVars,
                      publisherVars, managerVars, regVars,
                      runnerVars, stampVars, sev, health, now, lastList,
                      dashVars>>

\* getConsumerErrors({acknowledged: false, limit: 100, consumerGroupId?}) as
\* the set of ids it returns; the tables here stay far below the limit
UnacknowledgedErrors(rows, gid) ==
    { rows[i].id : i \in { j \in 1..Len(rows) :
                             /\ ~rows[j].acknowledged
                             /\ (gid # NoId => rows[j].consumerGroupId = gid) } }

\* ConsumerTrackingService.getUnacknowledgedErrors(consumerGroupId?)
GetUnacknowledgedErrors(gid) ==
    /\ lastList' = [ listed |-> TRUE,
                     ids |-> UnacknowledgedErrors(errs, gid), at |-> now ]
    /\ UNCHANGED <<consumerVars, storeVars, dispatchVars, brokerVars,
                   publisherVars, managerVars, regVars,
                   runnerVars, stampVars, sev, health, now, lastAck,
                   dashVars>>

\* a second passes on the store's clock
Tick ==
    /\ now < MaxClock
    /\ now' = now + 1
    /\ UNCHANGED <<consumerVars, storeVars, dispatchVars, brokerVars,
                   publisherVars, managerVars, regVars,
                   runnerVars, stampVars, sev, health, lastAck, lastList,
                   dashVars>>

\* errors are tracked, acknowledged over HTTP and listed, as time passes
NextAck ==
    \/ \E ok \in BOOLEAN :
          TrackConsumerError([name |-> "TypeError", markers |-> {}], 0, ok)
    \/ \E id \in ErrorIds, by \in Acknowledgers, notes \in ResolutionNotes,
          ok \in BOOLEAN : AcknowledgeRequest(id, by, notes, ok)
    \/ \E gid \in {NoId, GroupRowId} : GetUnacknowledgedErrors(gid)
    \/ Tick

SpecAck == Init /\ [][NextAck]_vars

\* ---------------------------------------------------------------- dashboard
\* limit: 10 of getDashboard's getMessageProcessing call, and slice(0, 10)
SlowMessagesLimit == 10

RECURSIVE CountRows(_, _)
\* the number of rows counted by c over the kinds in S
CountRows(c, S) ==
    IF S = {} THEN 0
    ELSE LET k == CHOOSE x \in S : TRUE
         IN c[k] + CountRows(c, S \ {k})

\* the rows that started that long ago (a of SinceStart), counted by their
\* processing_duration_ms
DurationsAt(rows, a) == [d \in Durations |-> rows[<<a, d>>]]

\* the ways to take n rows out of those counted by c (all of them when
\* there are no more than n)
Take(c, n) ==
    IF CountRows(c, Durations) <= n THEN {c}
    ELSE { t \in [Durations -> 0..n] :
               /\ \A d \in Durations : t[d] <= c[d]
               /\ CountRows(t, Durations) = n }

\* SELECT * FROM kafka_message_processing WHERE processing_started_at >= ?
\* (an hour ago: SinceStart 0 and 1) ORDER BY processing_started_at DESC
\* LIMIT ?: every row of the last half
\* hour comes before every earlier one; which rows of the half hour the
\* limit cuts through are the latest depends on their timestamps, so each
\* choice is an answer the store can give
getMessageProcessing(rows, limit) ==
    LET recent == DurationsAt(rows, 0)
        earlier == DurationsAt(rows, 1)
        n0 == CountRows(recent, Durations)
        n1 == CountRows(earlier, Durations)
        Min(a, b) == IF a < b THEN a ELSE b
    IN IF n0 >= limit THEN Take(recent, limit)
       ELSE { [d \in Durations |-> recent[d] + t[d]] :
                  t \in Take(earlier, Min(limit - n0, n1)) }

\* (m.processingDurationMs || 0)
DurationOrZero(d) == IF d = NoCount THEN 0 ELSE d

RECURSIVE SortByDuration(_)
\* slowMessages.sort((a, b) => (b.processingDurationMs || 0) -
\* (a.processingDurationMs || 0)): the rows counted by c, longest first
SortByDuration(c) ==
    IF \A d \in Durations : c[d] = 0 THEN <<>>
    ELSE LET top == CHOOSE d \in Durations :
                        /\ c[d] > 0
                        /\ \A e \in Durations :
                               c[e] > 0 =>
                                   DurationOrZero(e) <= DurationOrZero(d)
         IN <<top>> \o SortByDuration([c EXCEPT ![top] = @ - 1])

\* slice(0, n)
Slice(q, n) == SubSeq(q, 1, IF Len(q) < n THEN Len(q) ELSE n)

\* createMessageProcessing: a row is inserted with processing_started_at =
\* CURRENT_TIMESTAMP and no duration
StartMessageProcessing ==
    /\ CountRows(mpTimes, MessageClasses) < MaxMessages
    /\ mpTimes' = [mpTimes EXCEPT ![<<0, NoCount>>] = @ + 1]
    /\ dash' = NoDash
    /\ UNCHANGED <<consumerVars, storeVars, dispatchVars, brokerVars,
                   publisherVars, managerVars, regVars,
                   runnerVars, stampVars, sev, health, ackVars>>

\* updateMessageProcessing with processingCompletedAt = new Date(), by
\* completeMessageProcessing or failMessageProcessing: the BEFORE UPDATE
\* trigger sets processing_duration_ms to completed - started. The dispatch
\* call that started the row ends it d milliseconds later
EndMessageProcessing(d) ==
    /\ mpTimes[<<0, NoCount>>] > 0
    /\ mpTimes' = [mpTimes EXCEPT ![<<0, NoCount>>] = @ - 1,
                                  ![<<0, d>>] = @ + 1]
    /\ dash' = NoDash
    /\ UNCHANGED <<consumerVars, storeVars, dispatchVars, brokerVars,
                   publisherVars, managerVars, regVars,
                   runnerVars, stampVars, sev, health, ackVars>>

\* half an hour passes: every row started half an hour longer ago
HalfHourPasses ==
    /\ \E k \in MessageClasses : k[1] < 2 /\ mpTimes[k] > 0
    /\ mpTimes' = [k \in MessageClasses |->
                      CASE k[1] = 0 -> 0
                        [] k[1] = 1 -> mpTimes[<<0, k[2]>>]
                        [] OTHER -> mpTimes[<<1, k[2]>>] + mpTimes[k]]
    /\ dash' = NoDash
    /\ UNCHANGED <<consumerVars, storeVars, dispatchVars, brokerVars,
                   publisherVars, managerVars, regVars,
                   runnerVars, stampVars, sev, health, ackVars>>

\* a row of v_consumer_group_overview as mapConsumerGroupOverview hands it
\* on
OverviewRowValues ==
    [ status : {"ACTIVE", "PAUSED"}, activeInstances : {0, 2},
      totalLag : {500}, messagesLastHour : {0, 3} ]
OverviewRows == SeqsUpTo(OverviewRowValues, MaxOverviewGroups)

RECURSIVE SumOf(_, _)
\* overview.reduce((sum, g) => sum + g[field], 0)
SumOf(q, field) ==
    IF q = <<>> THEN 0 ELSE Head(q)[field] + SumOf(Tail(q), field)

\* the mutation divides whatever the message count is: 0 / 0 is NaN
ErrorRateX100Unguarded(errorCount, messages) ==
    IF messages > 0
    THEN (20000 * errorCount + messages) \div (2 * messages)
    ELSE NoCount
\* messagesProcessedLastHour > 0 ? (errorCount / messagesProcessedLastHour)
\* * 100 : 0, then Math.round(errorRate * 100) / 100; in hundredths
ErrorRateX100(errorCount, messages) ==
    IF messages > 0
    THEN (20000 * errorCount + messages) \div (2 * messages)
    ELSE 0

\* the overview object of getDashboard's answer
DashboardOverview(overview, errorCount) ==
    [ totalConsumerGroups |-> Len(overview),
      activeConsumerGroups |->
          Cardinality({i \in 1..Len(overview) : overview[i].status = "ACTIVE"}),
      totalActiveInstances |-> SumOf(overview, "activeInstances"),
      totalLag |-> SumOf(overview, "totalLag"),
      messagesProcessedLastHour |-> SumOf(overview, "messagesLastHour"),
      errorRateLastHourX100 |->
          ErrorRateX100(errorCount, SumOf(overview, "messagesLastHour")) ]

\* every table the dashboard reads refers to a group row (FOREIGN KEY
\* consumer_group_id, and the lag view joins the groups): with no group
\* registered there is no error, no message and no lag row
ReadableWith(overview, errorCount, lag) ==
    overview = <<>> =>
        /\ errorCount = 0
        /\ lag = <<>>
        /\ CountRows(mpTimes, MessageClasses) = 0

\* getDashboard.  overview is the rows of v_consumer_group_overview,
\* errorCount the number of unacknowledged errors of the last 24 hours the
\* query (limit 10) returns, lag the rows of getCurrentLag; these the store
\* answers.  The ten latest rows of the last hour are fetched, sorted by
\* duration and sliced; a query the store rejects (storeOK false) makes the
\* call throw.
GetDashboard(overview, errorCount, lag, storeOK) ==
    /\ ReadableWith(overview, errorCount, lag)
    /\ IF storeOK
       THEN \E slowMessages \in getMessageProcessing(mpTimes, SlowMessagesLimit) :
                dash' = [ result |-> "dashboard",
                          overview |-> DashboardOverview(overview, errorCount),
                          consumerGroups |-> overview,
                          recentErrors |-> Len(Slice([i \in 1..errorCount |-> i], 10)),
                          topSlowMessages |->
                              Slice(SortByDuration(slowMessages),
                                    SlowMessagesLimit),
                          lagByTopic |-> Len(Slice(lag, 20)) ]
       ELSE dash' = [NoDash EXCEPT !.result = "error"]
    /\ UNCHANGED <<consumerVars, storeVars, dispatchVars, brokerVars,
                   publisherVars, managerVars, regVars,
                   runnerVars, stampVars, sev, health, ackVars, mpTimes>>

\* the overview of one registered, active group with no instance, no lag and
\* no message counted
OneGroupOverview ==
    << [ status |-> "ACTIVE", activeInstances |-> 0, totalLag |-> 0,
         messagesLastHour |-> 0 ] >>

\* messages are processed as time passes, and the dashboard is read
NextDashboard ==
    \/ StartMessageProcessing
    \/ \E d \in DurationValues : EndMessageProcessing(d)
    \/ HalfHourPasses
    \/ \E ok \in BOOLEAN : GetDashboard(OneGroupOverview, 0, <<>>, ok)

SpecDashboard == Init /\ [][NextDashboard]_vars

\* the dashboard and the health report are read over what the store holds
\* about the groups
NextOverview ==
    \/ \E overview \in OverviewRows, errorCount \in 0..1,
          lag \in {<<>>, <<500>>}, ok \in BOOLEAN :
            GetDashboard(overview, errorCount, lag, ok)
    \/ \E status \in {"absent", "ACTIVE", "PAUSED"}, lag \in {<<>>, <<500>>},
          m \in {NoMetrics,
                 [ present |-> TRUE, errorRate |-> 5,
                   avgProcessingTimeMs |-> 2000, messagesPerSecond |-> 3 ]},
          ok \in BOOLEAN :
            GetConsumerHealthReport(status, lag, m, "number", ok)

SpecOverview == Init /\ [][NextOverview]_vars


\* ------------------------------------------------ processing timestamps
\* TRIGGER calculate_message_processing_duration, BEFORE UPDATE: with both
\* timestamps set, processing_duration_ms is their difference
CalculateDuration(row) ==
    IF row.completedAt # NoCount /\ row.startedAt # NoCount
    THEN [row EXCEPT !.durationMs = row.completedAt - row.startedAt]
    ELSE row

\* createMessageProcessing: status 'PROCESSING' and processing_started_at
\* DEFAULT CURRENT_TIMESTAMP, the store's clock
CreateMessageProcessing ==
    /\ Len(mpStamps) < MaxStamped
    /\ mpStamps' = Append(mpStamps, [ status |-> "PROCESSING",
                                      startedAt |-> now,
                                      completedAt |-> NoCount,
                                      durationMs |-> NoVal ])
    /\ UNCHANGED <<consumerVars, storeVars, dispatchVars, brokerVars,
                   publisherVars, managerVars, regVars,
                   runnerVars, sev, health, ackVars,
                   dashVars, processNow>>

\* completeMessageProcessing (status COMPLETED) or failMessageProcessing with
\* the dispatch loop's retry count 0 (status FAILED): processingCompletedAt
\* is new Date(), the consumer process's clock, and the UPDATE fires the
\* trigger.  The dispatch call that inserted row id updates it once.
UpdateMessageProcessing(id, status) ==
    /\ id \in 1..Len(mpStamps)
    /\ mpStamps[id].status = "PROCESSING"
    /\ mpStamps' =
          [mpStamps EXCEPT ![id] =
              CalculateDuration([@ EXCEPT !.status = status,
                                          !.completedAt = processNow])]
    /\ UNCHANGED <<consumerVars, storeVars, dispatchVars, brokerVars,
                   publisherVars, managerVars, regVars,
                   runnerVars, sev, health, ackVars,
                   dashVars, processNow>>

\* a unit of time passes on the consumer process's clock
ProcessTick ==
    /\ processNow < MaxClock
    /\ processNow' = processNow + 1
    /\ UNCHANGED <<consumerVars, storeVars, dispatchVars, brokerVars,
                   publisherVars, managerVars, regVars,
                   runnerVars, sev, health, ackVars,
                   dashVars, mpStamps>>

\* messages are tracked while the store's clock and the consumer process's
\* clock advance, each on its own host
NextStamps ==
    \/ CreateMessageProcessing
    \/ \E id \in 1..MaxStamped, status \in {"COMPLETED", "FAILED"} :
          UpdateMessageProcessing(id, status)
    \/ Tick
    \/ ProcessTick

SpecStamps == Init /\ [][NextStamps]_vars


\* ---------------------------------------------------------- the runner
\* consumer.run({ eachMessage }) names no partitionsConsumedConcurrently:
\* the broker client hands over one partition's records at a time
PartitionsConsumedConcurrently == 1

\* the mutation calls handleMessage without awaiting it: the promise the
\* runner waits for is settled while the handler still runs
EachMessagePendingNotAwaited(h) == {}
\* eachMessage: async (payload) => { await this.handleMessage(payload) }: the
\* promise the runner waits for stays pending as long as handleMessage runs
EachMessagePending(h) == h

\* the runner hands partition p's next record to eachMessage: it has fewer
\* than PartitionsConsumedConcurrently calls pending, none of them p's, and
\* counts the record as resolved as soon as the call's promise is settled
RunnerDispatch(p) ==
    /\ position[p] <= MaxOffset
    /\ Cardinality(EachMessagePending(handling)) < PartitionsConsumedConcurrently
    /\ \A r \in EachMessagePending(handling) : r.partition # p
    /\ LET rec == [partition |-> p, offset |-> position[p]]
       IN /\ rec \notin handling
          /\ handling' = handling \cup {rec}
          /\ lastDispatched' = [lastDispatched EXCEPT ![p] = rec.offset]
          /\ position' = IF rec \in EachMessagePending(handling')
                         THEN position
                         ELSE [position EXCEPT ![p] = @ + 1]
    /\ UNCHANGED <<consumerVars, storeVars, dispatchVars, brokerVars,
                   publisherVars, managerVars, regVars, sev, health, ackVars,
                   dashVars, stampVars>>

\* handleMessage returns: the record is resolved and the runner moves on
HandlerReturns(rec) ==
    /\ rec \in handling
    /\ handling' = handling \ {rec}
    /\ position' = IF rec \in EachMessagePending(handling)
                   THEN [position EXCEPT ![rec.partition] = rec.offset + 1]
                   ELSE position
    /\ UNCHANGED <<consumerVars, storeVars, dispatchVars, brokerVars,
                   publisherVars, managerVars, regVars, sev, health, ackVars,
                   dashVars, stampVars, lastDispatched>>

\* handleMessage rethrows: the record is not resolved, the runner will hand
\* it over again
HandlerRaises(rec) ==
    /\ rec \in handling
    /\ handling' = handling \ {rec}
    /\ UNCHANGED <<consumerVars, storeVars, dispatchVars, brokerVars,
                   publisherVars, managerVars, regVars, sev, health, ackVars,
                   dashVars, stampVars, position, lastDispatched>>

RunnerRecords == [partition : Partitions, offset : 0..MaxOffset]

\* one consumer's runner at work
NextRunner ==
    \/ \E p \in Partitions : RunnerDispatch(p)
    \/ \E rec \in RunnerRecords : HandlerReturns(rec)
    \/ \E rec \in RunnerRecords : HandlerRaises(rec)

SpecRunner == Init /\ [][NextRunner]_vars


\* -------------------------------------------------- the application
\* App.start has come through initializeKafka: the publisher is initialized
\* and the consumers are started; only then are the signal handlers set up
AppStarted ==
    /\ lastAdmin.op = "initialize" /\ lastAdmin.ok
    /\ lastMgr.op = "startAll" /\ lastMgr.result = "ok"

\* initializeKafka: eventPublisher.initialize(), then
\* consumerManager.initialize(), then consumerManager.startAll(); a call
\* that throws ends the process
StartPublisher(conn) ==
    /\ lastAdmin.op = "none" /\ lastMgr.op = "none"
    /\ PublisherInitialize(conn)
StartManager(n) ==
    /\ lastAdmin.op = "initialize" /\ lastAdmin.ok
    /\ lastMgr.op = "none"
    /\ ManagerInitialize(n)
StartConsumers(o) ==
    /\ lastAdmin.op = "initialize"
    /\ lastMgr.op = "initialize" /\ lastMgr.result = "ok"
    /\ StartAll(o)

\* await this.consumerManager.stopAll() came back without throwing
StopAllResolved(m) == m.op = "stopAll" /\ m.result = "ok"

\* shutdownKafka on SIGTERM / SIGINT, first half: consumerManager.stopAll()
ShutdownConsumers(discOK) ==
    /\ AppStarted
    /\ StopAll(discOK)

\* shutdownKafka, second half: eventPublisher.shutdown(), reached when
\* stopAll did not throw; the catch block logs whatever either call threw
ShutdownProducers(disc) ==
    /\ lastAdmin.op = "initialize"
    /\ StopAllResolved(lastMgr)
    /\ PublisherShutdown(disc)

\* the started application serves a pause or resume request
ServePause(gid, storeOK) ==
    /\ AppStarted
    /\ PauseGroupRequest(gid, storeOK)
ServeResume(gid, storeOK) ==
    /\ AppStarted
    /\ ResumeGroupRequest(gid, storeOK)

\* shutdownKafka has returned: stopAll threw, or shutdown returned or threw
ShutdownFinished ==
    \/ lastMgr.op = "stopAll" /\ ~StopAllResolved(lastMgr)
    \/ lastAdmin.op = "shutdown"

\* the application starts and is shut down
NextApp ==
    \/ \E conn \in [CatalogTopics -> BOOLEAN] : StartPublisher(conn)
    \/ \E n \in 0..Len(GroupOrder) : StartManager(n)
    \/ \E o \in [Groups -> StartOutcomes] : StartConsumers(o)
    \/ \E gid \in RequestGroups, ok \in BOOLEAN : ServePause(gid, ok)
    \/ \E gid \in RequestGroups, ok \in BOOLEAN : ServeResume(gid, ok)
    \/ \E discOK \in [Groups -> BOOLEAN] : ShutdownConsumers(discOK)
    \/ \E disc \in [CatalogTopics -> BOOLEAN] : ShutdownProducers(disc)

SpecApp == Init /\ [][NextApp]_vars


\* -------------------------------------- publishing around the life cycle
\* publish and publishBatch calls with initialize() and shutdown() called
\* between them, each admin call while no batch is in flight
GuardEvent == [eventId |-> "abc-1", eventType |-> "LoanApplicationCreated",
               correlationId |-> NoVal]
GuardEntries ==
    { <<>>, << [topic |-> "lms.customer.created", event |-> GuardEvent,
                key |-> NoVal] >> }

NextGuard ==
    \/ \E conn \in [CatalogTopics -> BOOLEAN] :
          ~BatchInFlight /\ PublisherInitialize(conn)
    \/ \E disc \in [CatalogTopics -> BOOLEAN] :
          ~BatchInFlight /\ PublisherShutdown(disc)
    \/ \E t \in CatalogTopics, b \in BOOLEAN :
          ~BatchInFlight /\ Publish(t, GuardEvent, NoVal, TRUE, b)
    \/ \E entries \in GuardEntries : PublishBatch(entries)
    \/ \E t \in CatalogTopics, ok \in BOOLEAN : BatchConnectDone(t, ok)
    \/ \E i \in 1..MaxBatchEmitted, ok \in BOOLEAN : BatchSendDone(i, ok)

SpecGuard == Init /\ [][NextGuard]_vars


\* ----------------------------------- dispatch after a failed registration
\* connect() and disconnect() of one consumer instance with the outcome of
\* its registerConsumerGroup kept while the consumer stays connected
ConnectRegistering(brokerOK, reg) ==
    /\ ConnectStep(brokerOK, reg)
    /\ registration' = IF brokerOK
                       THEN [outcome |-> reg, hadId |-> consumerGroupId # 0]
                       ELSE registration
DisconnectRegistering(brokerOK) ==
    /\ DisconnectStep(brokerOK)
    /\ registration' = IF brokerOK THEN NoRegistration ELSE registration

RegistrationFailures == {"upsertFail", "readFail", "statusFail"}

NextRegistration ==
    \/ \E b \in BOOLEAN, reg \in RegOutcomes : ConnectRegistering(b, reg)
    \/ \E b \in BOOLEAN : Subscribe(b)
    \/ \E b \in BOOLEAN : DisconnectRegistering(b)
    \/ \E v \in Values : Deliver(<<"lms.customer.created", 0>>, v)
    \/ Redeliver
    \/ \E o \in TrackOutcomes : TrackStart(o)
    \/ \E r \in HandlerErrors \cup {NoErr} : Handle(r)
    \/ \E ok \in BOOLEAN : TrackComplete(ok)
    \/ \E ok \in BOOLEAN : TrackFail(ok)
    \/ \E o \in TrackOutcomes : TrackError(o)
    \/ Rethrow

SpecRegistration == Init /\ [][NextRegistration]_vars

\* ================================================================ claims
\* the rows the current (or last) dispatch call wrote
OwnRows == {i \in 1..Len(mp) : mp[i].by = deliveries}
OwnErrors == {i \in 1..Len(errs) : errs[i].by = deliveries}

\* the record's value is empty or does not decode: handleMessage never gets
\* an event out of it
DecodeFails(v) == EventData(v) \in {NoVal, ""} \/ ParseThrows(v) # NoErr

\* a dispatch call has run and has ended
DispatchEnded == pc = "idle" /\ deliveries > 0

\* the dispatch call that wrote row i has ended
RowEnded(i) == mp[i].by < deliveries \/ pc = "idle"

\* C1: when the handler raises for a decoded record the dispatch call never
\* returns normally; it ends by raising the handler's own error, and before
\* it raises it has issued the FAILED update (when a record was opened) and
\* the ConsumerError insert (when the group is registered), whatever the
\* tracking store answered.
C1_HandlerErrorIsReraised ==
    handlerResult # NoErr =>
        /\ outcome # "returned"
        /\ pc = "idle" => (outcome = "raised" /\ raised = handlerResult)
        /\ pc = "rethrow" =>
              /\ processingId # NoId => "fail" \in attempted
              /\ consumerGroupId # 0 => "error" \in attempted

C1_Witness ==
    /\ pc = "idle"
    /\ handlerResult # NoErr
    /\ outcome = "raised"
    /\ rejected = {"fail", "error"}

\* C2: when the handler raises, a record was opened and the store accepted
\* every tracking write of the call, then at the point of the re-raise the
\* record is FAILED and the call has written exactly one ConsumerError, which
\* links to the record, carries its topic, partition and offset, and has the
\* severity determineSeverity gives the handler's error.
C2_FailedRecordAndOneLinkedError ==
    (pc = "rethrow" /\ handlerResult # NoErr /\ processingId # NoId
       /\ rejected = {}) =>
        /\ \E i \in OwnRows :
              /\ mp[i].id = processingId
              /\ mp[i].status = "FAILED"
              /\ Cardinality(OwnErrors) = 1
              /\ \A j \in OwnErrors :
                    /\ errs[j].messageProcessingId = mp[i].id
                    /\ errs[j].consumerGroupId = mp[i].consumerGroupId
                    /\ errs[j].topic = mp[i].topic
                    /\ errs[j].partition = mp[i].partition
                    /\ errs[j].offset = mp[i].offset
                    /\ errs[j].severity =
                         determineSeverity(handlerResult, errs[j].retryCount)

C2_Witness ==
    /\ pc = "rethrow"
    /\ handlerResult = [name |-> "Error", markers |-> {"FATAL"}]
    /\ processingId # NoId
    /\ rejected = {}
    /\ msg.partition = 1
    /\ NumberOf(msg.offset) = 0
    /\ \E j \in OwnErrors : errs[j].severity = "CRITICAL"

\* C3 (as claimed): a record whose value is empty or does not decode makes
\* the dispatch call return normally; it never raises to the broker client.
C3_DecodeFailureIsSkipped ==
    (DispatchEnded /\ DecodeFails(msg.value)) => outcome = "returned"

\* C4: a dispatch call for a record whose value is empty or does not decode
\* writes no MessageProcessingRecord and no ConsumerError.
C4_DecodeFailureWritesNothing ==
    [][ (DecodeFails(msg'.value) /\ (pc # "idle" \/ deliveries' # deliveries))
          => (mp' = mp /\ errs' = errs) ]_vars

C4_Witness ==
    /\ DispatchEnded
    /\ msg.value.kind = "malformed"
    /\ consumerGroupId # 0
    /\ outcome = "raised"
    /\ OwnRows = {} /\ OwnErrors = {}

\* C5: for a decoded record the handler runs exactly once per dispatch call,
\* and the call's outcome is fixed by the handler alone (normal return, or
\* the handler's error raised), whichever tracking writes were rejected.
C5_TrackingNeverChangesHandling ==
    /\ handlerCalls <= 1
    /\ (DispatchEnded /\ ~DecodeFails(msg.value)) =>
          /\ handlerCalls = 1
          /\ handlerResult = NoErr => outcome = "returned"
          /\ handlerResult # NoErr =>
                (outcome = "raised" /\ raised = handlerResult)

C5_Witness ==
    /\ DispatchEnded
    /\ ~DecodeFails(msg.value)
    /\ "start" \in rejected
    /\ handlerCalls = 1
    /\ outcome = "returned"

\* C6 (as claimed): when the handler returns normally, the record the call
\* opened ends COMPLETED, no ConsumerError is created and the call returns.
C6_SuccessEndsCompleted ==
    (DispatchEnded /\ handlerCalls = 1 /\ handlerResult = NoErr) =>
        /\ \A i \in OwnRows : mp[i].status = "COMPLETED"
        /\ OwnErrors = {}
        /\ outcome = "returned"

\* C6 (amended): when the handler returns normally, also for a type its
\* switch has no case for, no ConsumerError is created and the call returns
\* without raising; the opened record ends COMPLETED when the store returned
\* its id and accepted the completion update, and stays PROCESSING otherwise.
C6_SuccessEndsCompletedIfStoreAccepts ==
    (DispatchEnded /\ handlerCalls = 1 /\ handlerResult = NoErr) =>
        /\ \A i \in OwnRows :
              mp[i].status = IF mp[i].id \in lostUpdate THEN "PROCESSING"
                             ELSE "COMPLETED"
        /\ OwnErrors = {}
        /\ outcome = "returned"

C6_Witness ==
    /\ DispatchEnded
    /\ handlerCalls = 1
    /\ handlerResult = NoErr
    /\ msg.value.eventType = "NoSuchType"
    /\ \E i \in OwnRows : mp[i].status = "COMPLETED"

\* C7 (as claimed): once its dispatch call has ended every record has been
\* updated exactly once and is no longer PROCESSING.
C7_UpdatedExactlyOnce ==
    \A i \in 1..Len(mp) :
        RowEnded(i) => (mp[i].updates = 1 /\ mp[i].status # "PROCESSING")

\* C7 (amended): every record is created PROCESSING and is updated at most
\* once, by the dispatch call that created it and before that call ends; no
\* other step changes or removes it.  After its call has ended a record is
\* still PROCESSING exactly when its update never reached the store (the
\* store rejected it, or did not return the record's id at creation).
C7_UpdatedAtMostOnceByOwnCall ==
    /\ [](\A i \in 1..Len(mp) :
            /\ mp[i].updates <= 1
            /\ (mp[i].status = "PROCESSING") <=> (mp[i].updates = 0)
            /\ RowEnded(i) =>
                 ((mp[i].status = "PROCESSING") <=> (mp[i].id \in lostUpdate)))
    /\ [][ /\ Len(mp') >= Len(mp)
           /\ \A i \in 1..Len(mp) :
                 mp'[i] # mp[i] =>
                    /\ mp[i].by = deliveries /\ pc # "idle"
                    /\ mp[i].status = "PROCESSING"
           /\ \A i \in (Len(mp) + 1)..Len(mp') :
                 mp'[i].status = "PROCESSING" /\ mp'[i].updates = 0 ]_vars

C7_Witness ==
    \E i, j \in 1..Len(mp) :
        /\ RowEnded(i) /\ mp[i].status = "PROCESSING"
        /\ RowEnded(j) /\ mp[j].updates = 1 /\ mp[j].by < deliveries

\* C8: no record of the dispatch loop is ever RETRYING or DEAD_LETTER, and
\* every record and every ConsumerError has retryCount 0, however often the
\* broker hands the same record over again.
C8_NeverRetryingRetryCountZero ==
    /\ \A i \in 1..Len(mp) :
          mp[i].status \in {"PROCESSING", "COMPLETED", "FAILED"}
            /\ mp[i].retryCount = 0
    /\ \A j \in 1..Len(errs) : errs[j].retryCount = 0

C8_Witness ==
    /\ attempts >= 1
    /\ \E i, k \in 1..Len(mp) :
          /\ mp[i].by < mp[k].by
          /\ mp[i].topic = mp[k].topic /\ mp[i].partition = mp[k].partition
          /\ mp[i].offset = mp[k].offset
          /\ mp[i].status = "FAILED" /\ mp[k].status = "FAILED"
    /\ Len(errs) >= 2

\* the records the last publish call made the broker accept
PublishedRecords ==
    SubSeq(emitted, lastPublish.emittedBefore + 1, Len(emitted))

LastPublishSucceeded ==
    /\ lastPublish.result = "ok"
    /\ Len(emitted) > lastPublish.emittedBefore

\* C9: publish on an initialized publisher whose producer for the topic is
\* not connected first tries to connect it and, when that succeeds, sends;
\* the call succeeds exactly when the broker accepts both the connect and
\* the send, so a producer found disconnected is never by itself a failure.
C9_PublishConnectsLazily ==
    (lastPublish.called /\ lastPublish.result # "notInitialized"
       /\ ~lastPublish.wasConnected) =>
        /\ lastPublish.connectTried
        /\ lastPublish.connectOK => lastPublish.sendTried
        /\ (lastPublish.result = "ok") <=>
              (lastPublish.connectOK /\ lastPublish.brokerOK)
        /\ (lastPublish.result = "failed") <=>
              ~(lastPublish.connectOK /\ lastPublish.brokerOK)

C9_Witness ==
    /\ lastPublish.called
    /\ ~lastPublish.wasConnected
    /\ lastPublish.connectTried
    /\ lastPublish.result = "ok"
    /\ initialized
    /\ producers[lastPublish.topic] = "connected"
    /\ Len(emitted) = lastPublish.emittedBefore + 1

\* C10 (as claimed): a successful publish(topic, event, key) emits exactly
\* one record, to that topic, whose key is the supplied key and whose
\* eventId header equals the eventId inside the serialized envelope.
C10_OneRecordWithSuppliedKey ==
    lastPublish.result = "ok" =>
        /\ Len(emitted) = lastPublish.emittedBefore + 1
        /\ \A i \in 1..Len(PublishedRecords) :
              LET rec == PublishedRecords[i] IN
              /\ rec.topic = lastPublish.topic
              /\ lastPublish.key # NoVal => rec.key = lastPublish.key
              /\ HeaderOf(rec, "eventId") = JsonField(rec.value, "eventId")

\* C10 (amended): a successful publish(topic, event, key) emits exactly one
\* record, to that topic, whose eventId header equals the eventId inside the
\* serialized envelope and whose key is the supplied key when that key is a
\* non-empty string; an empty-string key is replaced by the event's eventId.
C10_OneRecordWithNonEmptyKey ==
    lastPublish.result = "ok" =>
        /\ Len(emitted) = lastPublish.emittedBefore + 1
        /\ \A i \in 1..Len(PublishedRecords) :
              LET rec == PublishedRecords[i] IN
              /\ rec.topic = lastPublish.topic
              /\ lastPublish.key \notin {NoVal, ""} => rec.key = lastPublish.key
              /\ lastPublish.key = "" => rec.key = lastPublish.event.eventId
              /\ HeaderOf(rec, "eventId") = JsonField(rec.value, "eventId")
              /\ HeaderOf(rec, "eventId") = lastPublish.event.eventId

C10_Witness ==
    /\ LastPublishSucceeded
    /\ lastPublish.key = "CUST-1"
    /\ lastPublish.event.correlationId = "corr-1"
    /\ emitted[Len(emitted)].key = "CUST-1"
    /\ HeaderOf(emitted[Len(emitted)], "eventId") = "abc-2"

\* C11 (as claimed): a successful publish without an explicit key emits a
\* record whose key is the event's correlationId when it has one, and the
\* event's eventId otherwise.
C11_KeyDefaultsToCorrelationId ==
    (LastPublishSucceeded /\ lastPublish.key = NoVal) =>
        \A i \in 1..Len(PublishedRecords) :
            PublishedRecords[i].key =
                IF lastPublish.event.correlationId # NoVal
                THEN lastPublish.event.correlationId
                ELSE lastPublish.event.eventId

\* the entries of the batch call whose send the broker accepted / rejected
BatchSent == {i \in 1..Len(batch.sends) : batch.sends[i] = "sent"}
BatchFailed == {i \in 1..Len(batch.sends) : batch.sends[i] = "failed"}
\* the records the batch call has made the broker accept
BatchRecords == SubSeq(emitted, batch.emittedBefore + 1, Len(emitted))

\* C12: publishBatch is not atomic across topics.  When a send (or the
\* connect) of one topic fails the call reports failure, and every record
\* the call has emitted, for this or another topic, stays emitted: no step
\* ever removes a record from the broker.
C12_NoRollbackAcrossTopics ==
    /\ [](/\ (BatchFailed # {}
                \/ \E t \in DOMAIN batch.branch : batch.branch[t] = "failed")
              => batch.state = "failed"
          /\ batch.state \in {"running", "ok", "failed"} =>
                Len(BatchRecords) = Cardinality(BatchSent))
    /\ [][ /\ Len(emitted') >= Len(emitted)
           /\ SubSeq(emitted', 1, Len(emitted)) = emitted ]_vars

C12_Witness ==
    /\ batch.state = "failed"
    /\ \E i \in BatchSent, j \in BatchFailed :
          /\ batch.entries[i].topic # batch.entries[j].topic
          /\ i < j
          /\ \E k \in 1..Len(BatchRecords) :
                BatchRecords[k].topic = batch.entries[i].topic

\* C13 (as claimed): the entries of a topic go to the broker as one batch,
\* so once the topic's sends have finished either all of its entries are
\* emitted or none of them are.
C13_TopicAllOrNone ==
    \A t \in DOMAIN batch.branch :
        LET mine == EntriesOf(batch.entries, t) IN
        (\A i \in mine : batch.sends[i] \in {"sent", "failed"}) =>
            (mine \subseteq BatchSent \/ mine \cap BatchSent = {})

\* the record BaseProducer.send builds for entry i of the batch call
BatchRecordOf(i) ==
    SendRecords(batch.entries[i].topic, batch.entries[i].event,
                batch.entries[i].key)[1]

\* C13 (amended): publishBatch hands every entry to its topic's producer as
\* a send of its own, started only once that producer is connected; every
\* accepted send emits exactly one record, with the entry's topic and key,
\* and the sends of a topic succeed or fail one by one.  The call reports
\* success only when every entry was emitted.
C13_OneSendPerEntry ==
    batch.state \in {"running", "ok", "failed"} =>
        /\ \A i \in 1..Len(batch.sends) :
              batch.sends[i] # "waiting" =>
                 batch.branch[batch.entries[i].topic] # "connecting"
        /\ Len(BatchRecords) = Cardinality(BatchSent)
        /\ \A i \in BatchSent :
              Cardinality({k \in 1..Len(BatchRecords) :
                              BatchRecords[k] = BatchRecordOf(i)})
                = Cardinality({j \in BatchSent :
                                  BatchRecordOf(j) = BatchRecordOf(i)})
        /\ batch.state = "ok" => BatchSent = 1..Len(batch.entries)

C13_Witness ==
    /\ batch.state = "failed"
    /\ ~BatchInFlight
    /\ \E i \in BatchSent, j \in BatchFailed :
          /\ batch.entries[i].topic = batch.entries[j].topic
          /\ Len(BatchRecords) = 1
          /\ BatchRecords[1] = BatchRecordOf(i)

\* C14 (as claimed): once publishBatch has returned, with success or with
\* failure, no connect or send it started is still in flight and no record
\* of the call is emitted any more.
C14_ReturnsAfterAllBranches ==
    batch.state \in {"ok", "failed"} =>
        /\ ~BatchInFlight
        /\ Len(emitted) = batch.emittedAtReturn


\* C15 (as claimed): a second consecutive initialize(), after one that
\* returned normally, issues no connect and leaves one connected producer
\* per catalog topic; a second consecutive shutdown(), after one that
\* returned normally, issues no disconnect and leaves every producer
\* disconnected.
C15_SecondCallIsNoop ==
    /\ (lastAdmin.op = "initialize" /\ lastAdmin.prevOp = "initialize"
          /\ lastAdmin.prevOK) =>
          /\ lastAdmin.issued = {}
          /\ DOMAIN producers = CatalogTopics
          /\ \A t \in CatalogTopics : producers[t] = "connected"
    /\ (lastAdmin.op = "shutdown" /\ lastAdmin.prevOp = "shutdown"
          /\ lastAdmin.prevOK) =>
          /\ lastAdmin.issued = {}
          /\ ConnectedTopics = {}

\* C16 (as claimed): after any connect() that succeeded, the tracking store
\* holds the row of the consumer's group and its status is ACTIVE.
C16_ActiveAfterConnect ==
    (lastOp.op = "connect" /\ lastOp.result = "ok") =>
        groupStatus = "ACTIVE"

\* C16 (amended): a connect() that opens the broker session succeeds whatever
\* the tracking store does with the registration.  When the store accepts
\* the upsert, the read-back and the status update, the group's row exists
\* with status ACTIVE and the consumer holds its id.  When the store rejects
\* the upsert the row is as it was before, possibly absent; when it rejects
\* the read-back or the status update a new row is ACTIVE by the column
\* default and an existing row keeps the status it had.
C16_ActiveWhenRegistrationAccepted ==
    (lastOp.op = "connect" /\ lastOp.result = "ok" /\ ~lastOp.wasConnected) =>
        /\ connected
        /\ lastOp.reg = "ok" =>
              (groupStatus = "ACTIVE" /\ consumerGroupId = GroupRowId)
        /\ lastOp.reg = "upsertFail" => groupStatus = lastOp.statusBefore
        /\ lastOp.reg \in {"readFail", "statusFail"} =>
              groupStatus = IF lastOp.statusBefore = "absent" THEN "ACTIVE"
                            ELSE lastOp.statusBefore

C16_Witness ==
    /\ lastOp.op = "connect" /\ lastOp.result = "ok"
    /\ ~lastOp.wasConnected
    /\ lastOp.reg = "statusFail"
    /\ lastOp.statusBefore = "PAUSED"
    /\ connected
    /\ groupStatus = "PAUSED"

\* C17: subscribe() on a consumer that is not connected (never connected,
\* connect failed, or disconnected) is rejected with an error and starts no
\* topic subscription and no dispatch loop; the dispatch loop is only ever
\* started by a subscribe() on a connected consumer, and only a connected
\* consumer has one.
C17_SubscribeRequiresConnected ==
    /\ []((lastOp.op = "subscribe" /\ ~lastOp.wasConnected) =>
             /\ lastOp.result = "rejected"
             /\ lastOp.brokerCalls = {}
             /\ ~running)
    /\ [](running => connected)
    /\ [][ (running' /\ ~running) =>
              (connected /\ lastOp'.op = "subscribe"
                 /\ lastOp'.result = "ok") ]_vars

C17_Witness ==
    /\ lastOp.op = "subscribe"
    /\ lastOp.result = "rejected"
    /\ ~connected /\ ~running
    /\ consumerGroupId = GroupRowId

\* C18: connect() on a connected consumer and disconnect() on a consumer
\* that is not connected return without a broker call and without a
\* tracking-store statement and leave the consumer and the store as they
\* were; and no disconnect() changes or removes the group's row.
C18_RepeatedCallsAreNoops ==
    /\ []((lastOp.op = "connect" /\ lastOp.wasConnected) =>
             /\ lastOp.brokerCalls = {} /\ lastOp.storeWrites = {}
             /\ connected)
    /\ []((lastOp.op = "disconnect" /\ ~lastOp.wasConnected) =>
             /\ lastOp.brokerCalls = {} /\ lastOp.storeWrites = {}
             /\ ~connected)
    /\ [][ ((lastOp'.op = "connect" /\ lastOp'.wasConnected)
              \/ (lastOp'.op = "disconnect" /\ ~lastOp'.wasConnected)) =>
               UNCHANGED <<connected, running, paused, consumerGroupId,
                           groupStatus, mp, errs>> ]_vars
    /\ [][ lastOp'.op = "disconnect" =>
               (lastOp'.storeWrites = {}
                  /\ UNCHANGED <<groupStatus, mp, errs>>) ]_vars

C18_Witness ==
    /\ lastOp.op = "connect"
    /\ lastOp.wasConnected
    /\ lastOp.result = "ok"
    /\ connected /\ running
    /\ groupStatus = "PAUSED"

\* C19 (as claimed): the group's persisted status follows the consumer: a
\* row that says ACTIVE has a connected consumer that is not paused, a
\* consumer that was paused has a row that says PAUSED, and after a
\* disconnect the row no longer says ACTIVE.
C19_StatusFollowsLifecycle ==
    /\ groupStatus = "ACTIVE" => (connected /\ ~paused)
    /\ (lastOp.op = "pause" /\ lastOp.result = "ok") =>
          groupStatus \in {"PAUSED", "absent"}
    /\ (lastOp.op = "disconnect" /\ lastOp.result = "ok") =>
          groupStatus # "ACTIVE"

\* C20: startAll() on a manager that is not initialized (before initialize(),
\* after a failed initialize(), or after a stopAll() that stopped it) raises
\* an error, asks the broker to connect or subscribe no consumer, and leaves
\* every consumer as it was.
C20_StartAllRequiresInitialize ==
    /\ []((lastMgr.op = "startAll" /\ ~lastMgr.wasInitialized) =>
             /\ lastMgr.result = "rejected"
             /\ lastMgr.connects = {} /\ lastMgr.subscribes = {}
             /\ \A k \in DOMAIN pool :
                   ~pool[k].connected /\ ~pool[k].running)
    /\ [][ (lastMgr'.op = "startAll" /\ ~lastMgr'.wasInitialized) =>
              UNCHANGED <<pool, mgrInitialized, mgrConsumers>> ]_vars

C20_Witness ==
    /\ lastMgr.op = "startAll"
    /\ lastMgr.prevOp = "stopAll"
    /\ lastMgr.prevWasInitialized
    /\ ~lastMgr.wasInitialized
    /\ lastMgr.result = "rejected"
    /\ ~mgrInitialized
    /\ pool = [k \in {} |-> NewConsumer]

\* C21: startAll is not transactional.  When a startAll on an initialized
\* manager reports failure, every consumer whose connect succeeded in the call
\* is still connected and every consumer whose dispatch loop the call started
\* is still running: nothing is rolled back.
C21_StartAllNotRolledBack ==
    (lastMgr.op = "startAll" /\ lastMgr.result = "failed") =>
        /\ \A k \in lastMgr.accepted : pool[k].connected
        /\ \A k \in lastMgr.begun : pool[k].running

\* a startAll failed because one consumer's connect was refused while
\* another consumer's connect succeeded in the same call
C21_Witness ==
    /\ lastMgr.op = "startAll"
    /\ lastMgr.result = "failed"
    /\ lastMgr.accepted # {}
    /\ \E k \in lastMgr.connects : ~pool[k].connected
    /\ \A k \in lastMgr.accepted : pool[k].connected

\* C22: after a stopAll() that succeeds on an initialized manager every
\* consumer that was connected has been disconnected, the manager is not
\* initialized and manages no consumers, and the startAll() that follows it
\* is rejected; a stopAll() on a manager that is not initialized changes
\* nothing.
C22_StopAllStopsEverything ==
    /\ []((lastMgr.op = "stopAll" /\ lastMgr.wasInitialized
                /\ lastMgr.result = "ok") =>
             /\ lastMgr.left = {}
             /\ ~mgrInitialized
             /\ mgrConsumers = <<>>
             /\ DOMAIN pool = {})
    /\ []((lastMgr.op = "startAll" /\ lastMgr.prevOp = "stopAll"
                /\ ~lastMgr.wasInitialized) =>
             lastMgr.result = "rejected" /\ lastMgr.connects = {})
    /\ [][ (lastMgr'.op = "stopAll" /\ ~lastMgr'.wasInitialized) =>
              UNCHANGED <<pool, mgrInitialized, mgrConsumers, groupRows>> ]_vars

\* a stopAll succeeded on an initialized manager all of whose consumers were
\* connected, and left the manager without consumers
C22_Witness ==
    /\ lastMgr.op = "stopAll"
    /\ lastMgr.wasInitialized
    /\ lastMgr.result = "ok"
    /\ lastMgr.disconnects = Groups
    /\ lastMgr.left = {}
    /\ ~mgrInitialized
    /\ mgrConsumers = <<>>

\* the status a pause / resume request writes, and the pause flag it leaves
RequestStatus(op) == IF op = "pause" THEN "PAUSED" ELSE "ACTIVE"
RequestPaused(op) == op = "pause"

\* C23 as stated: a pause or resume request that names a group no consumer
\* registered always reports success.
C23_UnregisteredAlwaysSucceeds ==
    (lastReq.op \in {"pause", "resume"} /\ lastReq.groupId = UnregisteredGroup)
        => lastReq.http = 200

\* C23: a pause (resume) request that reports success has paused (resumed)
\* every managed consumer, whichever group it named, and has written PAUSED
\* (ACTIVE) to the row of the named group alone; when the named group has no
\* row no row changes.  A request reports success exactly when every managed
\* consumer's run loop has been started and the store accepts the update, and
\* a request that fails writes no status.
C23_PoolWidePauseOneRowWrite ==
    [][ (/\ lastReq'.op \in {"pause", "resume"}
         /\ UNCHANGED <<mgrInitialized, mgrConsumers, lastMgr>>) =>
          IF lastReq'.http = 200
          THEN /\ \A k \in Managed : pool[k].running
               /\ \A k \in Managed :
                     pool'[k].paused = RequestPaused(lastReq'.op)
               /\ \A g \in Groups :
                     groupRows'[g] =
                        IF g = lastReq'.groupId /\ groupRows[g] # "absent"
                        THEN RequestStatus(lastReq'.op)
                        ELSE groupRows[g]
          ELSE groupRows' = groupRows ]_vars

\* a pause request for a group that no consumer registered reported success:
\* both managed consumers are paused, and no row says PAUSED
C23_Witness ==
    /\ lastReq = [op |-> "pause", groupId |-> UnregisteredGroup, http |-> 200]
    /\ Managed = Groups
    /\ \A k \in Managed : pool[k].running /\ pool[k].paused
    /\ \E g \in Groups : groupRows[g] = "ACTIVE"
    /\ \A g \in Groups : groupRows[g] # "PAUSED"

\* C26: the severity trackConsumerError gives an error is CRITICAL when its
\* message contains a fatal or connectivity marker; otherwise HIGH when the
\* retry count is above 3 or the message contains the corruption marker;
\* otherwise MEDIUM when the retry count is above 0; otherwise LOW - for
\* every combination of markers and retry counts, a missing count being 0.
C26_SeverityPrecedence ==
    sev.severity # NoVal =>
        LET rc == IF sev.retryCount = NoCount THEN 0 ELSE sev.retryCount
            critical == "FATAL" \in sev.markers
                            \/ "Cannot connect" \in sev.markers
            high == ~critical
                        /\ (rc > 3 \/ "data corruption" \in sev.markers)
            medium == ~critical /\ ~high /\ rc > 0
        IN /\ (sev.severity = "CRITICAL") = critical
           /\ (sev.severity = "HIGH") = high
           /\ (sev.severity = "MEDIUM") = medium
           /\ (sev.severity = "LOW") = (~critical /\ ~high /\ ~medium)
           /\ sev.stored => errs[Len(errs)].severity = sev.severity

\* an error with a fatal marker and the corruption marker, tracked after more
\* than three retries, was stored as CRITICAL
C26_Witness ==
    /\ sev.stored
    /\ "FATAL" \in sev.markers
    /\ "data corruption" \in sev.markers
    /\ sev.retryCount > 3
    /\ sev.severity = "CRITICAL"
    /\ errs[Len(errs)].severity = "CRITICAL"

\* C24: every health report that is returned carries healthScore = 100 less
\* 30 for a total lag above 10000 (else 15 above 1000), less 25 for a latest
\* error rate above 10 (else 10 above 5), less 20 for an average processing
\* time above 5000 ms (else 10 above 2000 ms), less 40 for a group status
\* other than ACTIVE; its status is HEALTHY from 80, WARNING from 50 and
\* CRITICAL below; a lag of 12000 with nothing else amiss gives 70, WARNING.
C24_ScoreIsSumOfDeductions ==
    health.result = "report" =>
        LET er == IF health.metrics.present THEN health.metrics.errorRate
                  ELSE 0
            avg == IF health.metrics.present
                   THEN health.metrics.avgProcessingTimeMs ELSE 0
            dLag == IF health.totalLag > 10000 THEN 30
                    ELSE IF health.totalLag > 1000 THEN 15 ELSE 0
            dErr == IF er > 10 THEN 25 ELSE IF er > 5 THEN 10 ELSE 0
            dAvg == IF avg > 5000 THEN 20 ELSE IF avg > 2000 THEN 10 ELSE 0
            dStatus == IF health.groupStatus = "ACTIVE" THEN 0 ELSE 40
        IN /\ health.healthScore = 100 - (dLag + dErr + dAvg + dStatus)
           /\ (health.status = "HEALTHY") = (health.healthScore >= 80)
           /\ (health.status = "WARNING") =
                 (health.healthScore >= 50 /\ health.healthScore < 80)
           /\ (health.status = "CRITICAL") = (health.healthScore < 50)
           /\ (health.totalLag = 12000 /\ dErr = 0 /\ dAvg = 0
                 /\ dStatus = 0) =>
                 (health.healthScore = 70 /\ health.status = "WARNING")

\* the report of an ACTIVE group 12000 messages behind, its error rate and
\* processing time below the thresholds: 70 and WARNING
C24_Witness ==
    /\ health.result = "report"
    /\ health.groupStatus = "ACTIVE"
    /\ health.totalLag = 12000
    /\ health.metrics.present
    /\ health.metrics.errorRate = 5
    /\ health.metrics.avgProcessingTimeMs = 2000
    /\ health.healthScore = 70
    /\ health.status = "WARNING"

\* C25: the healthScore of every health report that is returned lies within
\* 0..100.
C25_ScoreWithinBounds ==
    health.result = "report" =>
        (health.healthScore >= 0 /\ health.healthScore <= 100)

\* the error row a request named, as it is now
AckedRow == errs[ErrorRowAt(errs, lastAck.errorId)]

\* C27: an acknowledgment of an error that is already acknowledged leaves
\* acknowledgedBy and acknowledgedAt as the first acknowledgment set them.
C27_FirstWriterWins ==
    (lastAck.http = 200 /\ lastAck.wasAcknowledged) =>
        /\ AckedRow.acknowledgedBy = lastAck.prevBy
        /\ AckedRow.acknowledgedAt = lastAck.prevAt

\* C28: no step removes an error row or takes its acknowledged flag back
\* from true to false, and a listing of the unacknowledged errors returns
\* only rows that are unacknowledged when it is made: an error acknowledged
\* before a listing is not on it.
C28_AcknowledgedIsTerminal ==
    /\ [][ /\ Len(errs') >= Len(errs)
           /\ \A i \in 1..Len(errs) :
                 /\ errs'[i].id = errs[i].id
                 /\ errs[i].acknowledged => errs'[i].acknowledged ]_vars
    /\ [][ UNCHANGED <<errs, now, lastAck, sev>> =>
             \A id \in lastList'.ids :
                 /\ ErrorRowAt(errs, id) # NoId
                 /\ ~errs[ErrorRowAt(errs, id)].acknowledged ]_vars
    /\ [](\A id \in lastList.ids :
             LET row == errs[ErrorRowAt(errs, id)]
             IN row.acknowledged => row.acknowledgedAt >= lastList.at)

\* an error was acknowledged twice, and a listing made later than both
\* acknowledgments does not return it
C28_Witness ==
    /\ lastAck.http = 200
    /\ lastAck.wasAcknowledged
    /\ AckedRow.acknowledged
    /\ lastList.listed
    /\ AckedRow.acknowledgedAt < lastList.at
    /\ AckedRow.id \notin lastList.ids

\* C29: an acknowledge request whose acknowledgedBy is missing or empty is
\* answered 400 and writes nothing: every error row is as it was.
C29_MissingAcknowledgerRejected ==
    /\ []((lastAck.errorId # NoId /\ lastAck.acknowledgedBy \in {NoVal, ""})
             => lastAck.http = 400)
    /\ [][ (/\ lastAck' # lastAck
            /\ lastAck'.acknowledgedBy \in {NoVal, ""}) =>
              errs' = errs ]_vars

\* a request with an empty acknowledgedBy for an existing, unacknowledged
\* error was answered 400 and the row carries no acknowledgment
C29_Witness ==
    /\ lastAck.http = 400
    /\ lastAck.acknowledgedBy = ""
    /\ ErrorRowAt(errs, lastAck.errorId) # NoId
    /\ ~AckedRow.acknowledged
    /\ AckedRow.acknowledgedBy = NoVal
    /\ AckedRow.acknowledgedAt = NoCount
    /\ AckedRow.resolutionNotes = NoVal

\* the rows of the last hour, longest first, cut to the dashboard's ten
SlowestInLastHour ==
    Slice(SortByDuration([d \in Durations |->
                             mpTimes[<<0, d>>] + mpTimes[<<1, d>>]]),
          SlowMessagesLimit)

\* C30: the dashboard's topSlowMessages are the (up to) ten messages with
\* the largest processing duration among all messages whose processing
\* started in the last hour, in descending order of duration
\* (stated where every message of the last hour has ended, so that each
\* has a duration to be ranked by)
C30_TopSlowMessagesAreSlowest ==
    /\ dash.result = "dashboard"
    /\ mpTimes[<<0, NoCount>>] = 0
    /\ mpTimes[<<1, NoCount>>] = 0
    => dash.topSlowMessages = SlowestInLastHour

\* C31: with no data the dashboard and the health report succeed with zeroed
\* or empty results: a dashboard over zero registered groups has every
\* overview counter 0, the error rate included, and empty arrays; the health
\* report of a registered group with no metrics row and no lag row has
\* zeroed metrics
C31_NoDataReadsAsZero ==
    /\ /\ dash.result = "dashboard"
       /\ dash.consumerGroups = <<>>
       => /\ dash.overview =
                 [ totalConsumerGroups |-> 0, activeConsumerGroups |-> 0,
                   totalActiveInstances |-> 0, totalLag |-> 0,
                   messagesProcessedLastHour |-> 0,
                   errorRateLastHourX100 |-> 0 ]
          /\ dash.recentErrors = 0
          /\ dash.topSlowMessages = <<>>
          /\ dash.lagByTopic = 0
    /\ /\ health.result = "report"
       /\ ~health.metrics.present
       /\ health.totalLag = 0
       => health.reportMetrics =
              [ avgProcessingTime |-> 0, errorRate |-> 0, lag |-> 0,
                throughput |-> 0 ]

\* both reads were made over an empty store and both succeeded
C31_Witness ==
    /\ dash.result = "dashboard"
    /\ dash.consumerGroups = <<>>
    /\ dash.overview.errorRateLastHourX100 = 0
    /\ health.result = "report"
    /\ ~health.metrics.present
    /\ health.totalLag = 0
    /\ health.reportMetrics.lag = 0

\* C32: every MessageProcessingRecord with status COMPLETED or FAILED has
\* completedAt >= startedAt and durationMs = completedAt - startedAt
C32_CompletedNotBeforeStarted ==
    \A i \in 1..Len(mpStamps) :
        mpStamps[i].status \in {"COMPLETED", "FAILED"} =>
            /\ mpStamps[i].completedAt >= mpStamps[i].startedAt
            /\ mpStamps[i].durationMs =
                   mpStamps[i].completedAt - mpStamps[i].startedAt

\* C33: a consumer instance has at most one handler invocation in flight,
\* and the records of a partition reach the handler in offset order: a
\* record is handed over only when no dispatch call is running, and it is
\* the partition's record handed over last (again, after it raised) or the
\* one right after it (after it returned)
C33_OneInFlightInOffsetOrder ==
    /\ [](Cardinality(handling) <= 1)
    /\ [][\A rec \in handling' \ handling :
              /\ handling = {}
              /\ lastDispatched[rec.partition] = NoCount => rec.offset = 0
              /\ lastDispatched[rec.partition] # NoCount
                     => rec.offset \in { lastDispatched[rec.partition],
                                         lastDispatched[rec.partition] + 1 }
              /\ rec.offset = lastDispatched[rec.partition] + 1
                     => position[rec.partition] = rec.offset]_vars

\* the record after a returned one is in the handler, after the other
\* partition's first record was handled
C33_Witness ==
    /\ handling = {[partition |-> 0, offset |-> 1]}
    /\ position[1] >= 1

\* a consumer of the factory, or a producer, is connected
SomeConsumerConnected == \E k \in DOMAIN pool : pool[k].connected
SomeProducerConnected ==
    \E t \in DOMAIN producers : producers[t] = "connected"

\* C34: graceful shutdown disconnects all consumers and then all producers:
\* no producer is disconnected before every consumer has been stopped, and
\* when the shutdown routine has finished no consumer and no producer is
\* still connected
C34_ShutdownLeavesNothingConnected ==
    /\ [][(lastAdmin'.op = "shutdown" /\ lastAdmin.op # "shutdown")
              => ~SomeConsumerConnected]_vars
    /\ [](ShutdownFinished
              => ~SomeConsumerConnected /\ ~SomeProducerConnected)

\* C35: publish and publishBatch raise an error and emit no record whenever
\* the EventPublisher is not initialized: before the first initialize(),
\* after an initialize() that failed, and after shutdown(), until a later
\* initialize() succeeds
C35_NotInitializedEmitsNothing ==
    [][(~initialized /\ ~initialized')
           => /\ emitted' = emitted
              /\ lastPublish' # lastPublish
                     => lastPublish'.result = "notInitialized"
              /\ batch' # batch => batch'.state = "notInitialized"]_vars

\* after shutdown() a publish call and a publishBatch call were both turned
\* away
C35_Witness ==
    /\ ~initialized
    /\ lastAdmin.op = "shutdown" /\ lastAdmin.wasInitialized /\ lastAdmin.ok
    /\ lastPublish.result = "notInitialized"
    /\ batch.state = "notInitialized"
    /\ batch.entries # <<>>

\* after an initialize() that failed with one producer connected a publish
\* call on that producer's topic was turned away
C35_WitnessFailedInitialize ==
    /\ ~initialized
    /\ lastAdmin.op = "initialize" /\ ~lastAdmin.ok
    /\ lastPublish.result = "notInitialized"
    /\ lastPublish.topic \in ConnectedTopics

\* C36: startAll subscribes no consumer until every managed consumer's
\* connect() has succeeded: if any consumer fails to connect, no consumer is
\* subscribed and no dispatch loop is started by that startAll call
C36_NoSubscribeUnlessAllConnected ==
    [][(lastMgr'.op = "startAll" /\ lastMgr'.accepted # lastMgr'.connects)
           => /\ lastMgr'.subscribes = {}
              /\ lastMgr'.begun = {}
              /\ \A k \in DOMAIN pool :
                    k \in DOMAIN pool' /\ pool'[k].running = pool[k].running]_vars

\* a startAll in which one consumer connected and the other's connect failed,
\* although the broker would have accepted the first one's subscribe
C36_Witness ==
    /\ lastMgr.op = "startAll"
    /\ lastMgr.accepted # {}
    /\ lastMgr.accepted # lastMgr.connects
    /\ \E k \in lastMgr.accepted : pool[k].connected /\ ~pool[k].running

\* C37: if registering the consumer group in the tracking store fails during
\* connect(), the consumer still connects and processes messages, but it
\* writes no MessageProcessingRecord and no ConsumerError for any message for
\* as long as it stays connected
C37_FailedRegistrationWritesNothing ==
    [][(connected /\ registration.outcome \in RegistrationFailures)
           => mp' = mp /\ errs' = errs]_vars

\* C37, amended: when the registration fails before the store has returned
\* the group's row to a consumer that holds no tracking id, the consumer
\* connects and handles messages, keeps no tracking id while it stays
\* connected, and writes no MessageProcessingRecord and no ConsumerError
C37_UnregisteredWritesNothing ==
    [][(/\ connected
        /\ registration.outcome \in {"upsertFail", "readFail"}
        /\ ~registration.hadId)
           => /\ mp' = mp /\ errs' = errs
              /\ attempted' \subseteq attempted
              /\ connected' => consumerGroupId' = 0]_vars

\* a consumer whose first registration failed at the upsert had its handler
\* fail on a record, and the dispatch call ended with the error raised to the
\* broker client and nothing written
C37_Witness ==
    /\ connected /\ running
    /\ registration.outcome = "upsertFail" /\ ~registration.hadId
    /\ pc = "idle"
    /\ handlerCalls = 1
    /\ handlerResult # NoErr
    /\ outcome = "raised"
    /\ mp = <<>> /\ errs = <<>>

\* a record handed over again after its handler failed has been handled, the
\* handler failed again and the dispatch call has ended
RedeliveryFailedAgain ==
    /\ pc = "idle"
    /\ attempts >= 2
    /\ handlerCalls = 1
    /\ handlerResult # NoErr

\* C38: a record redelivered after a handler failure is tracked from scratch:
\* each delivery attempt opens a new MessageProcessingRecord and, on failure,
\* a new ConsumerError
C38_EachAttemptOpensRecords ==
    RedeliveryFailedAgain => (OwnRows # {} /\ OwnErrors # {})

\* C38, amended: each delivery attempt whose tracking writes the consumer
\* issues and the store accepts opens one new MessageProcessingRecord and, on
\* failure, one new ConsumerError linked to it; rows are only ever added, and
\* no step of a later attempt changes a record or an error of an earlier one
C38_TrackedAttemptsOpenNewRecords ==
    /\ [](RedeliveryFailedAgain =>
            /\ ("start" \in attempted \ rejected) =>
                  /\ Cardinality(OwnRows) = 1
                  /\ \A i \in OwnRows : mp[i].id = processingId
            /\ ("error" \in attempted \ rejected) =>
                  /\ Cardinality(OwnErrors) = 1
                  /\ \A j \in OwnErrors :
                        errs[j].messageProcessingId = processingId)
    /\ [][ /\ Len(mp') >= Len(mp) /\ Len(errs') >= Len(errs)
           /\ \A i \in 1..Len(mp) : mp[i].by < deliveries' => mp'[i] = mp[i]
           /\ \A j \in 1..Len(errs) : errs'[j] = errs[j] ]_vars

\* the store holds two FAILED records and two errors for one consumer group,
\* topic, partition and offset, one pair from each delivery attempt
C38_Witness ==
    /\ RedeliveryFailedAgain
    /\ \E i, k \in 1..Len(mp) :
          /\ mp[i].by < mp[k].by /\ k \in OwnRows
          /\ mp[i].consumerGroupId = mp[k].consumerGroupId
          /\ mp[i].topic = mp[k].topic /\ mp[i].partition = mp[k].partition
          /\ mp[i].offset = mp[k].offset
          /\ mp[i].status = "FAILED" /\ mp[k].status = "FAILED"
          /\ mp[i].updates = 1
          /\ \E a, b \in 1..Len(errs) :
                /\ errs[a].messageProcessingId = mp[i].id
                /\ errs[b].messageProcessingId = mp[k].id
                /\ errs[a].offset = errs[b].offset

\* C39: after any sequence of initialize(), startAll() and stopAll() calls,
\* including initialize() re-invoked and initialize() retried after it failed
\* partway, the manager's consumer list holds no consumer twice, holds the
\* same consumers as the ConsumerFactory, and on an initialized manager holds
\* every configured consumer group
C39_ListHoldsEachGroupOnce ==
    /\ \A i, j \in 1..Len(mgrConsumers) :
          mgrConsumers[i] = mgrConsumers[j] => i = j
    /\ Managed = DOMAIN pool
    /\ mgrInitialized => Managed = Groups

\* C40: every ConsumerError the dispatch loop creates has severity LOW, HIGH
\* or CRITICAL, decided by the markers in the error message alone: CRITICAL
\* with a fatal or connectivity marker, else HIGH with the corruption marker,
\* else LOW; MEDIUM is never written, however often a record is redelivered
C40_SeverityFromMessageOnly ==
    \A j \in 1..Len(errs) :
        LET critical == "FATAL" \in errs[j].markers
                            \/ "Cannot connect" \in errs[j].markers
            high == ~critical /\ "data corruption" \in errs[j].markers
        IN /\ errs[j].severity \in {"LOW", "HIGH", "CRITICAL"}
           /\ (errs[j].severity = "CRITICAL") = critical
           /\ (errs[j].severity = "HIGH") = high
           /\ (errs[j].severity = "LOW") = (~critical /\ ~high)

\* a record failed with a fatal error and was stored as CRITICAL; handed over
\* again it failed with an unmarked error, stored as LOW
C40_Witness ==
    /\ pc = "idle"
    /\ attempts >= 2
    /\ \E a, b \in 1..Len(errs) :
          /\ errs[a].by < errs[b].by
          /\ errs[a].offset = errs[b].offset
          /\ errs[a].topic = errs[b].topic
          /\ errs[a].severity = "CRITICAL"
          /\ errs[b].markers = {}
          /\ errs[b].severity = "LOW"

====
